---- MODULE Spec2Model ----
(***************************************************************************)
(* Order-book analytics and market-maker detection of market-analytics.    *)
(*                                                                         *)
(* Numbers.  Prices and sizes are Python floats in the source.  Here a     *)
(* price is an integer number of quote units and a size an integer number  *)
(* of base units; every quotient the code forms (spread in basis points,   *)
(* imbalance, means, volume ratios, band thresholds) is kept as an exact   *)
(* fraction <<numerator, denominator>> in lowest terms, so comparisons     *)
(* against the code's thresholds are exact.  Float rounding is not         *)
(* modelled.  A band percentage is carried in tenths of a percent          *)
(* (0.1% = 1, 1% = 10, 100% = 1000).  np.std is carried as its square.     *)
(*                                                                         *)
(* An order-book side is a sequence of levels <<price, size>>, as the      *)
(* JSON arrays the source reads with bid[0] and bid[1].                    *)
(***************************************************************************)
EXTENDS Integers, Sequences, FiniteSets, TLC

VARIABLES
    ob,                  \* the order book handed to the per-book functions
    liquidity,           \* return value of calculate_liquidity_depth
    depth_levels,        \* local depth_levels of calculate_depth_levels
    single,              \* return value of _analyze_single_snapshot
    mm_metrics,          \* table mm_metrics, rows in insertion order
    now,                 \* NOW() of the database, in seconds
    orderbook_snapshots, \* table orderbook_snapshots of one (symbol, exchange), newest first
    trades,              \* table trades of one (symbol, exchange), newest first
    pc,                  \* where the request GET /api/mm/detection stands
    pattern_analysis,    \* get_mm_analysis: analysis['pattern_analysis']
    trade_flow,          \* get_mm_analysis: analysis['trade_flow']
    liquidity_profile,   \* get_mm_analysis: analysis['liquidity_profile']
    profiler_locals,     \* spreads, imbalances and depth lists of calculate_liquidity_metrics
    response,            \* what get_mm_detection hands to its caller
    market_data,         \* table market_data of one symbol, newest first
    market_presence,     \* hours argument and return value of calculate_market_presence
    windows,             \* the snapshot and trade rows stored for each (symbol, exchange)
    calls,               \* the frames of the requests GET /api/mm/detection, in arrival order
    depth_task,          \* collect_single_orderbook between its depth computation and its UPDATE
    metrics_task,        \* calculate_mm_metrics: the rows it has computed and not yet inserted
    mm_performance,      \* table mm_performance, rows in insertion order
    perf_task,           \* collect_mm_performance_metrics: its position in the pair loop
    waiter,              \* wait_for_postgres: its arguments, loop variable and return value
    last_processed_timestamp, \* RealTimeTracker.last_processed_timestamp
    swap_transactions,   \* table swap_transactions, the tx_hash of each stored row
    tracker_calls        \* the process_swaps calls made so far, with what each returned

bookVars == <<ob, liquidity, depth_levels, single, mm_metrics>>

windowVars == <<now, orderbook_snapshots, trades, market_data>>

requestVars == <<pc, pattern_analysis, trade_flow, liquidity_profile, profiler_locals,
                 response, market_presence>>

callVars == <<windows, calls>>

jobVars == <<depth_task, metrics_task, mm_performance, perf_task>>

trackerVars == <<waiter, last_processed_timestamp, swap_transactions, tracker_calls>>

vars == <<bookVars, windowVars, requestVars, callVars, jobVars, trackerVars>>

\* Python None; every variable that can hold it otherwise holds a record
None == [none |-> TRUE]

\* SQL NULL of a numeric column; the columns hold fractions
NULL == <<0, 0>>

\* no scheduled job, no startup wait and no tracker cycle has run
JobsIdle ==
    /\ depth_task = None /\ metrics_task = <<>>
    /\ mm_performance = <<>> /\ perf_task = None
    /\ waiter = None
    /\ last_processed_timestamp = 0 /\ swap_transactions = {} /\ tracker_calls = <<>>

(***************************************************************************)
(* Arithmetic helpers                                                      *)
(***************************************************************************)
Abs(x) == IF x < 0 THEN -x ELSE x

Min(a, b) == IF a <= b THEN a ELSE b

RECURSIVE GCD(_, _)
GCD(a, b) == IF b = 0 THEN a ELSE GCD(b, a % b)

\* the fraction n/d (d # 0) in lowest terms with a positive denominator
Frac(n, d) ==
    LET g == GCD(Abs(n), Abs(d))
        s == IF d < 0 THEN -1 ELSE 1
    IN  <<(s * n) \div g, (s * d) \div g>>

FracLess(x, y) == x[1] * y[2] < y[1] * x[2]

FracLeq(x, y) == x[1] * y[2] <= y[1] * x[2]

FracAdd(x, y) == Frac(x[1] * y[2] + y[1] * x[2], x[2] * y[2])

FracSub(x, y) == Frac(x[1] * y[2] - y[1] * x[2], x[2] * y[2])

FracMul(x, y) == Frac(x[1] * y[1], x[2] * y[2])

FracInt(n) == <<n, 1>>

\* Python sum() over a sequence of integers
RECURSIVE SumSeq(_)
SumSeq(s) == IF s = <<>> THEN 0 ELSE Head(s) + SumSeq(Tail(s))

\* Python s[:n]
Take(s, n) == SubSeq(s, 1, Min(n, Len(s)))

Sizes(levels) == [i \in 1..Len(levels) |-> levels[i][2]]

(***************************************************************************)
(* Program constants                                                       *)
(***************************************************************************)
TopLevels == 20          \* bids[:20] / asks[:20]

WallMeanLevels == 10     \* bids[:10] / asks[:10] in the order-wall mean

WallFactor == 5          \* volume > avg_volume * 5

StoredLevels == 100      \* bids[:100] / asks[:100] in calculate_depth_levels

Symbols == {"BTCUSDT"}

Exchanges == {"binance_spot", "gate"}

(***************************************************************************)
(* main.py: calculate_liquidity_depth                                      *)
(***************************************************************************)
\* mid_price as the callers form it: (float(bids[0][0]) + float(asks[0][0])) / 2
MidPrice(bids, asks) == Frac(bids[1][1] + asks[1][1], 2)

\* bid_threshold = mid_price * (1 - pct / 100), pct in tenths of a percent
BidThreshold(mid_price, pct) == FracMul(mid_price, Frac(1000 - pct, 1000))

\* ask_threshold = mid_price * (1 + pct / 100)
AskThreshold(mid_price, pct) == FracMul(mid_price, Frac(1000 + pct, 1000))

BidLiquidity_NoEquality(bids, mid_price, pct) ==
    LET bid_threshold == BidThreshold(mid_price, pct)
    IN  SumSeq(Sizes(SelectSeq(bids,
            LAMBDA bid : FracLess(bid_threshold, FracInt(bid[1])))))

BidLiquidity_Reversed(bids, mid_price, pct) ==
    LET bid_threshold == BidThreshold(mid_price, pct)
    IN  SumSeq(Sizes(SelectSeq(bids,
            LAMBDA bid : FracLeq(FracInt(bid[1]), bid_threshold))))

\* sum(float(bid[1]) for bid in bids if float(bid[0]) >= bid_threshold)
BidLiquidity(bids, mid_price, pct) ==
    LET bid_threshold == BidThreshold(mid_price, pct)
    IN  SumSeq(Sizes(SelectSeq(bids,
            LAMBDA bid : FracLeq(bid_threshold, FracInt(bid[1])))))

AskLiquidity_BidBand(asks, mid_price, pct) ==
    LET ask_threshold == BidThreshold(mid_price, pct)
    IN  SumSeq(Sizes(SelectSeq(asks,
            LAMBDA ask : FracLeq(FracInt(ask[1]), ask_threshold))))

\* sum(float(ask[1]) for ask in asks if float(ask[0]) <= ask_threshold)
AskLiquidity(asks, mid_price, pct) ==
    LET ask_threshold == AskThreshold(mid_price, pct)
    IN  SumSeq(Sizes(SelectSeq(asks,
            LAMBDA ask : FracLeq(FracInt(ask[1]), ask_threshold))))

\* the key f'depth_{int(pct)}pct' is carried as int(pct)
DepthKey(pct) == pct \div 10

\* the dict built by the loop over depth_pcts: a later pct whose key equals an
\* earlier one overwrites it
calculate_liquidity_depth(orderbook, mid_price, depth_pcts) ==
    LET keys == {DepthKey(depth_pcts[i]) : i \in 1..Len(depth_pcts)}
        last(k) == CHOOSE i \in 1..Len(depth_pcts) :
                      /\ DepthKey(depth_pcts[i]) = k
                      /\ \A j \in 1..Len(depth_pcts) :
                            DepthKey(depth_pcts[j]) = k => j <= i
    IN  [k \in keys |->
            BidLiquidity(orderbook.bids, mid_price, depth_pcts[last(k)])
          + AskLiquidity(orderbook.asks, mid_price, depth_pcts[last(k)])]

(***************************************************************************)
(* main.py: calculate_depth_levels                                         *)
(***************************************************************************)
\* [('0.1%', 0.1), ('0.5%', 0.5), ('1%', 1), ('2%', 2), ('5%', 5)]
DepthBands == << <<"0.1%", 1>>, <<"0.5%", 5>>, <<"1%", 10>>, <<"2%", 20>>, <<"5%", 50>> >>

BandNames == {DepthBands[i][1] : i \in 1..Len(DepthBands)}

BandPct(level) == (CHOOSE i \in 1..Len(DepthBands) : DepthBands[i][1] = level) 

\* a signed distance (price - mid_price) / mid_price * 100, below zero for bids
PriceDiffPct_Signed(price, mid_price) ==
    FracMul(Frac(price * mid_price[2] - mid_price[1], mid_price[1]), FracInt(100))

\* price_diff_pct = abs(price - mid_price) / mid_price * 100
PriceDiffPct(price, mid_price) ==
    FracMul(Frac(Abs(price * mid_price[2] - mid_price[1]), mid_price[1]), FracInt(100))

\* how the float operations behind price_diff_pct round when the distance is
\* exactly pct as a real number: to pct itself, or to the next float above it
\* (abs(8919.9 - 9010.0) / 9010.0 * 100 is 1.0000000000000002)
Roundings == {"exact", "excess"}

\* if price_diff_pct <= pct
WithinBand(price, mid_price, pct, rounding) ==
    IF FracLess(PriceDiffPct(price, mid_price), Frac(pct, 10)) THEN TRUE
    ELSE /\ FracLeq(PriceDiffPct(price, mid_price), Frac(pct, 10))
         /\ rounding = "exact"

\* the volume a side adds to one band: every level of the first 100 with
\* price_diff_pct <= pct
BandVolume(levels, mid_price, pct, rounding) ==
    SumSeq(Sizes(SelectSeq(Take(levels, StoredLevels),
        LAMBDA l : WithinBand(l[1], mid_price, pct, rounding))))

DepthLevelsOf(bids, asks, rounding) ==
    LET mid_price == MidPrice(bids, asks)
    IN  [level \in BandNames |->
            [bid_volume |-> BandVolume(bids, mid_price, DepthBands[BandPct(level)][2],
                                       rounding),
             ask_volume |-> BandVolume(asks, mid_price, DepthBands[BandPct(level)][2],
                                       rounding)]]

\* SELECT MAX(timestamp) FROM mm_metrics WHERE exchange = $5 AND symbol = $6
IsLatestMetric(table, i, exchange, symbol) ==
    /\ table[i].exchange = exchange
    /\ table[i].symbol = symbol
    /\ \A j \in 1..Len(table) :
          (table[j].exchange = exchange /\ table[j].symbol = symbol)
              => table[j].timestamp <= table[i].timestamp

\* an UPDATE without the timestamp condition: every row of the pair is written
UpdateDepth_AllRows(table, exchange, symbol, levels) ==
    [i \in 1..Len(table) |->
        IF table[i].exchange = exchange /\ table[i].symbol = symbol
        THEN [table[i] EXCEPT !.bid_depth_1pct = FracInt(levels["1%"].bid_volume),
                              !.ask_depth_1pct = FracInt(levels["1%"].ask_volume),
                              !.bid_depth_2pct = FracInt(levels["2%"].bid_volume),
                              !.ask_depth_2pct = FracInt(levels["2%"].ask_volume)]
        ELSE table[i]]

\* UPDATE mm_metrics SET bid_depth_1pct = .., ask_depth_1pct = .., bid_depth_2pct = ..,
\* ask_depth_2pct = .. WHERE exchange, symbol and timestamp = MAX(timestamp)
UpdateDepth(table, exchange, symbol, levels) ==
    [i \in 1..Len(table) |->
        IF IsLatestMetric(table, i, exchange, symbol)
        THEN [table[i] EXCEPT !.bid_depth_1pct = FracInt(levels["1%"].bid_volume),
                              !.ask_depth_1pct = FracInt(levels["1%"].ask_volume),
                              !.bid_depth_2pct = FracInt(levels["2%"].bid_volume),
                              !.ask_depth_2pct = FracInt(levels["2%"].ask_volume)]
        ELSE table[i]]

(***************************************************************************)
(* market_maker_detector.py: MarketMakerDetector._analyze_single_snapshot  *)
(***************************************************************************)
\* price % 10 == 0 or price % 100 == 0
IsRoundPrice(price) == price % 10 = 0 \/ price % 100 = 0

RoundEvent(side, level, timestamp) ==
    [side |-> side, price |-> level[1], volume |-> level[2], timestamp |-> timestamp]

RoundNumberOrders_Top10(levels, side, timestamp) ==
    LET hit == SelectSeq(Take(levels, WallMeanLevels), LAMBDA l : IsRoundPrice(l[1]))
    IN  [i \in 1..Len(hit) |-> RoundEvent(side, hit[i], timestamp)]

\* one loop of step 1: for bid in bids[:20]: if round: append
RoundNumberOrders(levels, side, timestamp) ==
    LET hit == SelectSeq(Take(levels, TopLevels), LAMBDA l : IsRoundPrice(l[1]))
    IN  [i \in 1..Len(hit) |-> RoundEvent(side, hit[i], timestamp)]

\* the keys of {float(l[1]): float(l[0]) for l in levels[:20]} in insertion order:
\* a volume keeps the place of its first level
RECURSIVE DictKeys(_, _)
DictKeys(levels, seen) ==
    IF levels = <<>> THEN <<>>
    ELSE IF Head(levels)[2] \in seen THEN DictKeys(Tail(levels), seen)
    ELSE <<Head(levels)[2]>> \o DictKeys(Tail(levels), seen \cup {Head(levels)[2]})

VolumeKeys(levels) == DictKeys(Take(levels, TopLevels), {})

\* volume in ask_volumes
HasVolume(levels, volume) ==
    \E i \in 1..Len(Take(levels, TopLevels)) : levels[i][2] = volume

\* a dict that would keep the first price seen under a volume
VolumePrice_First(levels, volume) ==
    LET top == Take(levels, TopLevels)
        i == CHOOSE k \in 1..Len(top) :
                /\ top[k][2] = volume
                /\ \A j \in 1..Len(top) : top[j][2] = volume => k <= j
    IN  top[i][1]

\* the value the dict comprehension leaves under a volume: the price of the last
\* level of the first 20 carrying it
VolumePrice(levels, volume) ==
    LET top == Take(levels, TopLevels)
        i == CHOOSE k \in 1..Len(top) :
                /\ top[k][2] = volume
                /\ \A j \in 1..Len(top) : top[j][2] = volume => j <= k
    IN  top[i][1]

SymmetricOrders_PerLevel(bids, asks, timestamp) ==
    LET common == SelectSeq(Sizes(Take(bids, TopLevels)), LAMBDA v : HasVolume(asks, v))
    IN  [i \in 1..Len(common) |->
            [volume    |-> common[i],
             bid_price |-> VolumePrice(bids, common[i]),
             ask_price |-> VolumePrice(asks, common[i]),
             spread    |-> VolumePrice(asks, common[i]) - VolumePrice(bids, common[i]),
             timestamp |-> timestamp]]

\* step 2: for volume in bid_volumes: if volume in ask_volumes: append
SymmetricOrders(bids, asks, timestamp) ==
    LET common == SelectSeq(VolumeKeys(bids), LAMBDA v : HasVolume(asks, v))
    IN  [i \in 1..Len(common) |->
            [volume    |-> common[i],
             bid_price |-> VolumePrice(bids, common[i]),
             ask_price |-> VolumePrice(asks, common[i]),
             spread    |-> VolumePrice(asks, common[i]) - VolumePrice(bids, common[i]),
             timestamp |-> timestamp]]

WallSample_Top20(bids, asks) ==
    Sizes(Take(bids, TopLevels)) \o Sizes(Take(asks, TopLevels))

\* the list np.mean is taken of: sizes of bids[:10] then of asks[:10]
WallSample(bids, asks) ==
    Sizes(Take(bids, WallMeanLevels)) \o Sizes(Take(asks, WallMeanLevels))

\* volume > avg_volume * 5, avg_volume = sum / count; with an empty sample the
\* mean is nan and every comparison is False
IsWall(volume, sample) ==
    /\ sample # <<>>
    /\ volume * Len(sample) > SumSeq(sample) * WallFactor

\* volume / avg_volume; a zero mean gives inf, carried as <<1, 0>>
VolumeRatio(volume, sample) ==
    IF SumSeq(sample) = 0 THEN <<1, 0>>
    ELSE Frac(volume * Len(sample), SumSeq(sample))

\* one loop of step 3
OrderWalls(levels, side, sample, timestamp) ==
    LET hit == SelectSeq(Take(levels, TopLevels), LAMBDA l : IsWall(l[2], sample))
    IN  [i \in 1..Len(hit) |->
            [side |-> side, price |-> hit[i][1], volume |-> hit[i][2],
             volume_ratio |-> VolumeRatio(hit[i][2], sample),
             timestamp |-> timestamp]]

\* a detector that would fill persistent_levels with the round bid levels
analyze_single_snapshot_Persistent(bids, asks, timestamp) ==
    [round_number_orders |-> RoundNumberOrders(bids, "bid", timestamp)
                             \o RoundNumberOrders(asks, "ask", timestamp),
     symmetric_orders    |-> SymmetricOrders(bids, asks, timestamp),
     order_walls         |-> OrderWalls(bids, "bid", WallSample(bids, asks), timestamp)
                             \o OrderWalls(asks, "ask", WallSample(bids, asks), timestamp),
     spoofing_candidates |-> <<>>,
     persistent_levels   |-> RoundNumberOrders(bids, "bid", timestamp)]

\* the dict _analyze_single_snapshot returns: spoofing_candidates and
\* persistent_levels are created empty and no step appends to them
analyze_single_snapshot(bids, asks, timestamp) ==
    [round_number_orders |-> RoundNumberOrders(bids, "bid", timestamp)
                             \o RoundNumberOrders(asks, "ask", timestamp),
     symmetric_orders    |-> SymmetricOrders(bids, asks, timestamp),
     order_walls         |-> OrderWalls(bids, "bid", WallSample(bids, asks), timestamp)
                             \o OrderWalls(asks, "ask", WallSample(bids, asks), timestamp),
     spoofing_candidates |-> <<>>,
     persistent_levels   |-> <<>>]

(***************************************************************************)
(* market_maker_detector.py: LiquidityProfiler, the body of the loop over   *)
(* the window for one order book                                           *)
(***************************************************************************)
\* [('0.1%', 0.001), ('0.5%', 0.005), ('1%', 0.01), ('2%', 0.02)]
ProfilerBands == << <<"0.1%", 1>>, <<"0.5%", 5>>, <<"1%", 10>>, <<"2%", 20>> >>

ProfilerBandNames == {ProfilerBands[i][1] : i \in 1..Len(ProfilerBands)}

ProfilerPct(level_name) ==
    ProfilerBands[CHOOSE i \in 1..Len(ProfilerBands) : ProfilerBands[i][1] = level_name][2]

\* sum(float(b[1]) for b in bids if float(b[0]) >= mid_price * (1 - level_pct))
ProfilerBidDepth(bids, mid_price, level_pct) ==
    LET threshold == FracMul(mid_price, Frac(1000 - level_pct, 1000))
    IN  SumSeq(Sizes(SelectSeq(bids, LAMBDA b : FracLeq(threshold, FracInt(b[1])))))

\* sum(float(a[1]) for a in asks if float(a[0]) <= mid_price * (1 + level_pct))
ProfilerAskDepth(asks, mid_price, level_pct) ==
    LET threshold == FracMul(mid_price, Frac(1000 + level_pct, 1000))
    IN  SumSeq(Sizes(SelectSeq(asks, LAMBDA a : FracLeq(FracInt(a[1]), threshold))))

(***************************************************************************)
(* market_maker_detector.py: MarketMakerDetector                            *)
(***************************************************************************)
PatternWindowSeconds == 1800     \* INTERVAL '30 minutes'

PatternLimit == 100              \* LIMIT 100

HourSeconds == 3600              \* INTERVAL '1 hour'

\* SELECT .. WHERE timestamp > NOW() - INTERVAL '30 minutes'
\* ORDER BY timestamp DESC LIMIT 100; the table is kept newest first
FetchPatternSnapshots(table, t_now) ==
    Take(SelectSeq(table, LAMBDA r : r.timestamp > t_now - PatternWindowSeconds),
         PatternLimit)

\* SELECT .. WHERE timestamp > NOW() - INTERVAL '1 hour' ORDER BY timestamp DESC
FetchHour(table, t_now) ==
    SelectSeq(table, LAMBDA r : r.timestamp > t_now - HourSeconds)

\* bids1_dict / bids2_dict: the first 20 bid levels keyed by price
HasBidPrice(bids, price) == \E i \in 1..Len(Take(bids, TopLevels)) : bids[i][1] = price

\* a detector that would also report the ask levels that are gone
detect_rapid_changes_BothSides(bids1, asks1, bids2, asks2, time1, time2) ==
    IF time1 - time2 > 0
    THEN LET gone == SelectSeq(Take(bids2, TopLevels),
                               LAMBDA b : ~HasBidPrice(bids1, b[1]) /\ b[2] > 1)
             gone_asks == SelectSeq(Take(asks2, TopLevels),
                                    LAMBDA a : ~HasBidPrice(asks1, a[1]) /\ a[2] > 1)
         IN  [i \in 1..(Len(gone) + Len(gone_asks)) |->
                 IF i <= Len(gone)
                 THEN [type |-> "disappeared_order", side |-> "bid",
                       price |-> gone[i][1], volume |-> gone[i][2],
                       duration_seconds |-> time1 - time2]
                 ELSE [type |-> "disappeared_order", side |-> "ask",
                       price |-> gone_asks[i - Len(gone)][1],
                       volume |-> gone_asks[i - Len(gone)][2],
                       duration_seconds |-> time1 - time2]]
    ELSE <<>>

detect_rapid_changes_AnyElapsed(bids1, asks1, bids2, asks2, time1, time2) ==
    LET gone == SelectSeq(Take(bids2, TopLevels),
                          LAMBDA b : ~HasBidPrice(bids1, b[1]) /\ b[2] > 1)
    IN  [i \in 1..Len(gone) |->
            [type |-> "disappeared_order", side |-> "bid",
             price |-> gone[i][1], volume |-> gone[i][2],
             duration_seconds |-> time1 - time2]]

\* _detect_rapid_changes: bids of the previous snapshot (bids2) with volume > 1
\* whose price is no key of the current one (bids1), when time1 - time2 > 0
detect_rapid_changes(bids1, asks1, bids2, asks2, time1, time2) ==
    IF time1 - time2 > 0
    THEN LET gone == SelectSeq(Take(bids2, TopLevels),
                               LAMBDA b : ~HasBidPrice(bids1, b[1]) /\ b[2] > 1)
         IN  [i \in 1..Len(gone) |->
                 [type |-> "disappeared_order", side |-> "bid",
                  price |-> gone[i][1], volume |-> gone[i][2],
                  duration_seconds |-> time1 - time2]]
    ELSE <<>>

Indicator(b) == IF b THEN 1 ELSE 0

calculate_mm_score_OffByOne(analysis) ==
    Min(  20 * Indicator(Len(analysis.round_number_orders) > 5)
        + 30 * Indicator(Len(analysis.symmetric_orders) > 4)
        + 15 * Indicator(Len(analysis.order_walls) > 0)
        + 20 * Indicator(Len(analysis.rapid_changes) > 10)
        + 15 * Indicator(Len(analysis.persistent_levels) > 5), 100)

\* _calculate_mm_score
calculate_mm_score(analysis) ==
    Min(  (IF Len(analysis.round_number_orders) > 5 THEN 20 ELSE 0)
        + (IF Len(analysis.symmetric_orders) > 3 THEN 30 ELSE 0)
        + (IF Len(analysis.order_walls) > 0 THEN 15 ELSE 0)
        + (IF Len(analysis.rapid_changes) > 10 THEN 20 ELSE 0)
        + (IF Len(analysis.persistent_levels) > 5 THEN 15 ELSE 0), 100)

\* a price or size of the stored JSON that float() rejects (such as "n/a" or
\* null), carried as a value no price or size takes
Malformed == -1

\* float(bid[0]) and float(bid[1]) of the loops of _analyze_single_snapshot over
\* bids[:20] and asks[:20] raise on a malformed value
SingleRaises(bids, asks) ==
    \/ \E i \in 1..Len(Take(bids, TopLevels)) :
          bids[i][1] = Malformed \/ bids[i][2] = Malformed
    \/ \E i \in 1..Len(Take(asks, TopLevels)) :
          asks[i][1] = Malformed \/ asks[i][2] = Malformed

\* _detect_rapid_changes converts the sizes of bids1[:20] and bids2[:20] when it
\* builds the dicts (prices stay as stored) and the price of a disappeared order
RapidRaises(bids1, bids2, time1, time2) ==
    /\ time1 - time2 > 0
    /\ \/ \E i \in 1..Len(Take(bids1, TopLevels)) : bids1[i][2] = Malformed
       \/ \E i \in 1..Len(Take(bids2, TopLevels)) : bids2[i][2] = Malformed
       \/ \E i \in 1..Len(Take(bids2, TopLevels)) :
             /\ bids2[i][1] = Malformed
             /\ ~HasBidPrice(bids1, bids2[i][1])
             /\ bids2[i][2] > 1

\* the loop of analyze_order_patterns has no try: the first ValueError leaves it
PatternsRaise(snapshots) ==
    \E i \in 1..(Len(snapshots) - 1) :
        \/ SingleRaises(snapshots[i].bids, snapshots[i].asks)
        \/ RapidRaises(snapshots[i].bids, snapshots[i + 1].bids,
                       snapshots[i].timestamp, snapshots[i + 1].timestamp)

EmptyPatterns ==
    [round_number_orders |-> <<>>, symmetric_orders |-> <<>>, order_walls |-> <<>>,
     spoofing_candidates |-> <<>>, persistent_levels |-> <<>>, rapid_changes |-> <<>>]

\* a loop over range(len(snapshots)) that also analyzes the oldest snapshot
RECURSIVE PatternLoop_WithOldest(_, _, _)
PatternLoop_WithOldest(snapshots, i, analysis) ==
    IF i > Len(snapshots) THEN analysis
    ELSE LET current == snapshots[i]
             current_analysis ==
                 analyze_single_snapshot(current.bids, current.asks, current.timestamp)
             changes ==
                 IF i = Len(snapshots) THEN <<>>
                 ELSE detect_rapid_changes(current.bids, current.asks,
                                           snapshots[i + 1].bids, snapshots[i + 1].asks,
                                           current.timestamp, snapshots[i + 1].timestamp)
         IN  PatternLoop_WithOldest(snapshots, i + 1,
                 [analysis EXCEPT
                     !.round_number_orders = @ \o current_analysis.round_number_orders,
                     !.symmetric_orders = @ \o current_analysis.symmetric_orders,
                     !.order_walls = @ \o current_analysis.order_walls,
                     !.rapid_changes = @ \o changes])

\* the loop of analyze_order_patterns over range(len(snapshots) - 1), from pair i on
RECURSIVE PatternLoop(_, _, _)
PatternLoop(snapshots, i, analysis) ==
    IF i > Len(snapshots) - 1 THEN analysis
    ELSE LET current  == snapshots[i]
             previous == snapshots[i + 1]
             current_analysis ==
                 analyze_single_snapshot(current.bids, current.asks, current.timestamp)
             changes ==
                 detect_rapid_changes(current.bids, current.asks,
                                      previous.bids, previous.asks,
                                      current.timestamp, previous.timestamp)
         IN  PatternLoop(snapshots, i + 1,
                 [round_number_orders |-> analysis.round_number_orders
                                          \o current_analysis.round_number_orders,
                  symmetric_orders    |-> analysis.symmetric_orders
                                          \o current_analysis.symmetric_orders,
                  order_walls         |-> analysis.order_walls
                                          \o current_analysis.order_walls,
                  spoofing_candidates |-> analysis.spoofing_candidates
                                          \o current_analysis.spoofing_candidates,
                  persistent_levels   |-> analysis.persistent_levels
                                          \o current_analysis.persistent_levels,
                  rapid_changes       |-> analysis.rapid_changes \o changes])

\* analyze_order_patterns, given the rows its query fetched
analyze_order_patterns(snapshots) ==
    LET analysis == PatternLoop(snapshots, 1, EmptyPatterns)
    IN  [round_number_orders |-> analysis.round_number_orders,
         symmetric_orders    |-> analysis.symmetric_orders,
         order_walls         |-> analysis.order_walls,
         spoofing_candidates |-> analysis.spoofing_candidates,
         persistent_levels   |-> analysis.persistent_levels,
         rapid_changes       |-> analysis.rapid_changes,
         mm_probability_score |-> calculate_mm_score(analysis)]

(***************************************************************************)
(* market_maker_detector.py: OrderFlowAnalyzer.analyze_trade_patterns       *)
(***************************************************************************)
PingPongWindow == 10             \* trades[i:i+10]

PingPongMinSide == 3             \* len(buys) > 3 and len(sells) > 3

SizeClusterMin == 5              \* count > 5

RECURSIVE FracSum(_)
FracSum(s) == IF s = <<>> THEN <<0, 1>> ELSE FracAdd(Head(s), FracSum(Tail(s)))

\* np.mean of a non-empty list of fractions
FracMean(s) == FracMul(FracSum(s), Frac(1, Len(s)))

\* np.mean of a non-empty list of integers
IntMean(s) == Frac(SumSeq(s), Len(s))

\* np.std squared: the mean of the squared distances from the mean
FracVar(s) ==
    LET m == FracMean(s)
    IN  FracMean([i \in 1..Len(s) |-> FracMul(FracSub(s[i], m), FracSub(s[i], m))])

FracAbs(x) == <<Abs(x[1]), x[2]>>

Prices(ts) == [i \in 1..Len(ts) |-> ts[i].price]

\* the ping-pong test of one window of 10 trades; <<>> or one event
PingPongOf(window) ==
    LET buys  == SelectSeq(window, LAMBDA t : t.side = "buy")
        sells == SelectSeq(window, LAMBDA t : t.side = "sell")
    IN  IF Len(buys) > PingPongMinSide /\ Len(sells) > PingPongMinSide
        THEN LET avg_buy_price  == IntMean(Prices(buys))
                 avg_sell_price == IntMean(Prices(sells))
             IN  \* abs(avg_buy_price - avg_sell_price) / avg_buy_price < 0.001
                 IF FracLess(FracAbs(FracSub(avg_buy_price, avg_sell_price)),
                             FracMul(avg_buy_price, Frac(1, 1000)))
                 THEN << [timestamp |-> window[1].timestamp,
                          avg_buy_price |-> avg_buy_price,
                          avg_sell_price |-> avg_sell_price,
                          trade_count |-> Len(window)] >>
                 ELSE <<>>
        ELSE <<>>

\* for i in range(len(trades) - 10): window = trades[i:i+10]   (i is 0-based)
RECURSIVE PingPongLoop(_, _)
PingPongLoop(ts, i) ==
    IF i >= Len(ts) - PingPongWindow THEN <<>>
    ELSE PingPongOf(SubSeq(ts, i + 1, i + PingPongWindow)) \o PingPongLoop(ts, i + 1)

Round4_Truncate(quantity) == quantity - (quantity % 10)

\* round(size, 4) of a quantity carried in units of 0.00001, ties to even
Round4(quantity) ==
    LET r == quantity % 10
        down == quantity - r
    IN  IF r < 5 THEN down
        ELSE IF r > 5 THEN down + 10
        ELSE IF (down \div 10) % 2 = 0 THEN down ELSE down + 10

\* the keys of size_counts in insertion order
RECURSIVE SizeKeys(_, _)
SizeKeys(sizes, seen) ==
    IF sizes = <<>> THEN <<>>
    ELSE IF Head(sizes) \in seen THEN SizeKeys(Tail(sizes), seen)
    ELSE <<Head(sizes)>> \o SizeKeys(Tail(sizes), seen \cup {Head(sizes)})

SizeCount(sizes, size) == Cardinality({i \in 1..Len(sizes) : sizes[i] = size})

SizePatterns(ts) ==
    LET rounded == [i \in 1..Len(ts) |-> Round4(ts[i].quantity)]
        often == SelectSeq(SizeKeys(rounded, {}),
                           LAMBDA z : SizeCount(rounded, z) > SizeClusterMin)
    IN  [i \in 1..Len(often) |->
            [size |-> often[i],
             frequency |-> SizeCount(rounded, often[i]),
             percentage |-> Frac(SizeCount(rounded, often[i]) * 100, Len(ts))]]

\* analyze_trade_patterns, given the rows its query fetched
analyze_trade_patterns(ts) ==
    [ping_pong_trades  |-> PingPongLoop(ts, 0),
     size_patterns     |-> SizePatterns(ts),
     time_patterns     |-> <<>>,
     price_improvement |-> <<>>]

(***************************************************************************)
(* market_maker_detector.py: LiquidityProfiler.calculate_liquidity_metrics  *)
(***************************************************************************)
\* spread_bps = ((best_ask - best_bid) / best_bid) * 10000
SpreadBps(best_bid, best_ask) == Frac((best_ask - best_bid) * 10000, best_bid)

\* the rows that pass "if bids and asks"
TwoSidedRows(orderbooks) == SelectSeq(orderbooks, LAMBDA r : r.bids # <<>> /\ r.asks # <<>>)

TopVolume(levels) == SumSeq(Sizes(Take(levels, TopLevels)))

\* the rows that also pass "if total_bid_volume + total_ask_volume > 0"
ImbalanceRows(orderbooks) ==
    SelectSeq(TwoSidedRows(orderbooks),
              LAMBDA r : TopVolume(r.bids) + TopVolume(r.asks) > 0)

\* the share of the bid volume instead of the signed imbalance
Imbalance_BidShare(r) ==
    Frac(TopVolume(r.bids), TopVolume(r.bids) + TopVolume(r.asks))

\* imbalance = (total_bid_volume - total_ask_volume)
\*             / (total_bid_volume + total_ask_volume)
Imbalance(r) ==
    Frac(TopVolume(r.bids) - TopVolume(r.asks), TopVolume(r.bids) + TopVolume(r.asks))

\* the float() calls of the loop body for one side of a two-sided row: every
\* price of the side (the band test of the depth sums), and the sizes of the first
\* 20 levels and of the levels inside the widest band; in_band[i] tells whether
\* level i is inside it
SideRaises(levels, in_band) ==
    \E i \in 1..Len(levels) :
        \/ levels[i][1] = Malformed
        \/ /\ levels[i][2] = Malformed
           /\ i <= TopLevels \/ in_band[i]

RowRaises(r) ==
    /\ r.bids # <<>> /\ r.asks # <<>>
    /\ \/ r.bids[1][1] = Malformed
       \/ r.asks[1][1] = Malformed
       \/ LET mid_price == MidPrice(r.bids, r.asks)
              widest    == ProfilerBands[Len(ProfilerBands)][2]
              bid_in == [i \in 1..Len(r.bids) |->
                            FracLeq(FracMul(mid_price, Frac(1000 - widest, 1000)),
                                    FracInt(r.bids[i][1]))]
              ask_in == [i \in 1..Len(r.asks) |->
                            FracLeq(FracInt(r.asks[i][1]),
                                    FracMul(mid_price, Frac(1000 + widest, 1000)))]
          IN  SideRaises(r.bids, bid_in) \/ SideRaises(r.asks, ask_in)

\* the loop of calculate_liquidity_metrics has no try either
ProfilerRaises(orderbooks) == \E i \in 1..Len(orderbooks) : RowRaises(orderbooks[i])

\* spreads, imbalances and the per-level depth lists when the loop has ended
ProfilerLocals(orderbooks) ==
    LET rows == TwoSidedRows(orderbooks)
        imb  == ImbalanceRows(orderbooks)
    IN  [spreads    |-> [i \in 1..Len(rows) |-> SpreadBps(rows[i].bids[1][1], rows[i].asks[1][1])],
         imbalances |-> [i \in 1..Len(imb) |-> Imbalance(imb[i])],
         bid_depth_levels |->
             [n \in ProfilerBandNames |->
                 [i \in 1..Len(rows) |->
                     ProfilerBidDepth(rows[i].bids, MidPrice(rows[i].bids, rows[i].asks),
                                      ProfilerPct(n))]],
         ask_depth_levels |->
             [n \in ProfilerBandNames |->
                 [i \in 1..Len(rows) |->
                     ProfilerAskDepth(rows[i].asks, MidPrice(rows[i].bids, rows[i].asks),
                                      ProfilerPct(n))]]]

\* the four tests that build liquidity_score; spread_volatility < 5 is taken on
\* the squares
liquidity_score_of(avg_spread_bps, spread_var, depth_1pct, abs_mean_imbalance) ==
      (IF FracLess(avg_spread_bps, FracInt(10)) THEN 30 ELSE 0)
    + (IF FracLess(spread_var, FracInt(25)) THEN 20 ELSE 0)
    + (IF FracLess(FracInt(10), depth_1pct) THEN 25 ELSE 0)
    + (IF FracLess(abs_mean_imbalance, Frac(2, 10)) THEN 25 ELSE 0)

\* calculate_liquidity_metrics, given the rows its query fetched.  With no
\* imbalance sample metrics['order_book_imbalance'] is still the list [] and
\* [].get raises AttributeError
calculate_liquidity_metrics(orderbooks) ==
    LET loc == ProfilerLocals(orderbooks)
        avg_spread_bps == IF loc.spreads # <<>> THEN FracMean(loc.spreads) ELSE <<0, 1>>
        spread_var     == IF loc.spreads # <<>> THEN FracVar(loc.spreads) ELSE <<0, 1>>
        levels == IF loc.spreads # <<>> THEN ProfilerBandNames ELSE {}
        bid_depth == [n \in levels |-> IntMean(loc.bid_depth_levels[n])]
        ask_depth == [n \in levels |-> IntMean(loc.ask_depth_levels[n])]
    IN  IF loc.imbalances = <<>>
        THEN [status |-> "raised", exception |-> "AttributeError"]
        ELSE [status |-> "ok",
              avg_spread_bps |-> avg_spread_bps,
              spread_volatility_sq |-> spread_var,
              bid_depth_levels |-> bid_depth,
              ask_depth_levels |-> ask_depth,
              order_book_imbalance |->
                  [mean |-> FracMean(loc.imbalances),
                   std_sq |-> FracVar(loc.imbalances),
                   current |-> loc.imbalances[1]],
              liquidity_score |->
                  liquidity_score_of(avg_spread_bps, spread_var,
                      IF "1%" \in levels THEN bid_depth["1%"] ELSE <<0, 1>>,
                      FracAbs(FracMean(loc.imbalances))),
              quote_stability |-> 0]

(***************************************************************************)
(* Order books the per-book functions are applied to.  A side is a best    *)
(* level, optionally FillerLevels one-tick levels behind it, and up to     *)
(* MaxTail deeper levels; bids descend and asks ascend in price, as the    *)
(* exchanges deliver them.  With the filler the last tail level is the     *)
(* 21st of its side.                                                       *)
(***************************************************************************)
MaxTail == 2

FillerLevels == 18

BookSizes == {1, 6}

BidHeadPrices == {10020, 9991}

BidTailPrices == {9900, 9899}

AskHeadPrices == {10009}

AskTailPrices == {10100, 10101, 21000}

BidFiller == [i \in 1..FillerLevels |-> <<9990 - i, 1>>]

AskFiller == [i \in 1..FillerLevels |-> <<10009 + i, 1>>]

\* sequences of at most n levels over the prices, strictly ordered: falling when
\* dir = -1, rising when dir = 1
RECURSIVE Tails(_, _, _)
Tails(prices, n, dir) ==
    IF n = 0 THEN {<<>>}
    ELSE {<<>>} \cup
         UNION { { <<l>> \o t : t \in { u \in Tails(prices, n - 1, dir) :
                                          u = <<>> \/ (u[1][1] - l[1]) * dir > 0 } } :
                 l \in prices \X BookSizes }

BidSide(head, deep, tail) ==
    <<<<head, 1>>>> \o (IF deep THEN BidFiller ELSE <<>>) \o tail

AskSide(head, deep, tail) ==
    <<<<head, 1>>>> \o (IF deep THEN AskFiller ELSE <<>>) \o tail

\* two-sided books, both sides shallow or both deep, and the one-sided and empty
\* books the guards of the callers turn away
Books ==
    { [timestamp |-> 0, bids |-> BidSide(hb, deep, tb), asks |-> AskSide(ha, deep, ta)] :
        hb \in BidHeadPrices, ha \in AskHeadPrices, deep \in BOOLEAN,
        tb \in Tails(BidTailPrices, MaxTail, -1),
        ta \in Tails(AskTailPrices, MaxTail, 1) }
    \cup { [timestamp |-> 0, bids |-> <<>>, asks |-> <<>>],
           [timestamp |-> 0, bids |-> BidSide(9991, FALSE, <<>>), asks |-> <<>>],
           [timestamp |-> 0, bids |-> <<>>, asks |-> AskSide(10009, FALSE, <<>>)],
           [timestamp |-> 0, bids |-> <<<<65000, 10>>, <<64990, 3>>>>,
                             asks |-> <<<<65010, 3>>>>],
           \* ten levels of mean volume 9/5 and a best bid of exactly five times that
           [timestamp |-> 0,
            bids |-> [i \in 1..5 |-> <<10000 - i, IF i = 1 THEN 9 ELSE 1>>],
            asks |-> [i \in 1..5 |-> <<10000 + i, 1>>]] }

\* depth_pcts arguments, in tenths of a percent: [2, 4, 8] of
\* collect_mm_performance_metrics; the bands of the depth tables and the full book
DepthPctArgs == {<<20, 40, 80>>, <<1, 5, 10, 20, 50, 1000>>}

MetricRow(exchange, symbol, timestamp) ==
    [exchange |-> exchange, symbol |-> symbol, timestamp |-> timestamp,
     spread_bps |-> <<0, 1>>, bid_depth_1pct |-> <<0, 1>>, ask_depth_1pct |-> <<0, 1>>,
     bid_depth_2pct |-> NULL, ask_depth_2pct |-> NULL,
     quote_count |-> 1, uptime_pct |-> <<10, 1>>]

(***************************************************************************)
(* SpecBook: the per-book functions applied to one order book              *)
(***************************************************************************)
InitBook ==
    /\ ob \in Books
    /\ liquidity = None
    /\ depth_levels = None
    /\ single = None
    /\ mm_metrics = << MetricRow("binance_spot", "BTCUSDT", 1),
                       MetricRow("binance_spot", "BTCUSDT", 2),
                       MetricRow("gate", "BTCUSDT", 2) >>
    /\ now = 0 /\ orderbook_snapshots = <<>> /\ trades = <<>> /\ market_data = <<>>
    /\ market_presence = None /\ JobsIdle /\ windows = <<>> /\ calls = <<>>
    /\ pc = "idle"
    /\ pattern_analysis = None /\ trade_flow = None /\ liquidity_profile = None
    /\ profiler_locals = None /\ response = None

\* collect_mm_performance_metrics: if bids and asks: mid_price = ..;
\* liquidity_data = await calculate_liquidity_depth(orderbook, mid_price, ..)
CalculateLiquidityDepth(depth_pcts) ==
    /\ ob.bids # <<>> /\ ob.asks # <<>>
    /\ liquidity' = [depth_pcts |-> depth_pcts,
                     ret |-> calculate_liquidity_depth(ob, MidPrice(ob.bids, ob.asks),
                                                       depth_pcts)]
    /\ UNCHANGED <<ob, depth_levels, single, mm_metrics, windowVars, jobVars, trackerVars, callVars, requestVars>>

\* calculate_depth_levels(exchange_name, symbol, orderbook)
CalculateDepthLevels(exchange_name, symbol) ==
    /\ IF ob.bids = <<>> \/ ob.asks = <<>>
       THEN UNCHANGED <<depth_levels, mm_metrics>>
       ELSE /\ \E rounding \in Roundings :
                   depth_levels' = DepthLevelsOf(ob.bids, ob.asks, rounding)
            /\ mm_metrics' = UpdateDepth(mm_metrics, exchange_name, symbol, depth_levels')
    /\ UNCHANGED <<ob, liquidity, single, windowVars, jobVars, trackerVars, callVars, requestVars>>

AnalyzeSingleSnapshot ==
    /\ single' = analyze_single_snapshot(ob.bids, ob.asks, ob.timestamp)
    /\ UNCHANGED <<ob, liquidity, depth_levels, mm_metrics, windowVars, jobVars, trackerVars, callVars, requestVars>>

NextBook ==
    \/ \E depth_pcts \in DepthPctArgs : CalculateLiquidityDepth(depth_pcts)
    \/ \E s \in Symbols : CalculateDepthLevels("binance_spot", s)
    \/ AnalyzeSingleSnapshot

SpecBook == InitBook /\ [][NextBook]_vars

(***************************************************************************)
(* Spec: one request GET /api/mm/detection/{symbol} against a stored        *)
(* window.  The tables hold at most MaxSnapshots order books drawn from     *)
(* WindowBooks and one of the trade histories of TradeHistories.            *)
(***************************************************************************)
MaxSnapshots == 2

\* n levels from price first in steps of step, sizes cycling through cycle, the
\* level at rank wall_at (0: none) carrying wall_size
Ladder(n, first, step, cycle, wall_at, wall_size) ==
    [i \in 1..n |-> <<first + (i - 1) * step,
                      IF i = wall_at THEN wall_size ELSE cycle[((i - 1) % Len(cycle)) + 1]>>]

WindowBooks ==
    { \* tight and balanced
      [bids |-> <<<<10000, 6>>, <<9990, 6>>>>, asks |-> <<<<10005, 6>>, <<10010, 6>>>>],
      \* wide, thin and bid-heavy
      [bids |-> <<<<10000, 2>>>>, asks |-> <<<<10100, 1>>>>],
      \* crossed
      [bids |-> <<<<10000, 2>>>>, asks |-> <<<<9990, 2>>>>],
      \* one side missing
      [bids |-> <<>>, asks |-> <<<<10005, 1>>>>],
      \* resting orders of size zero
      [bids |-> <<<<10000, 0>>>>, asks |-> <<<<10010, 0>>>>],
      \* deep, round prices, four sizes on both sides, a wall at rank 12 of the bids
      [bids |-> Ladder(21, 10000, -10, <<2, 3, 4, 5>>, 12, 40),
       asks |-> Ladder(21, 10010, 10, <<5, 4, 3, 2>>, 0, 0)],
      \* deep, one round price, one size
      [bids |-> <<<<10000, 2>>>> \o Ladder(20, 9995, -10, <<2>>, 0, 0),
       asks |-> Ladder(21, 10015, 10, <<2>>, 0, 0)],
      \* deep, a bid at 9995 pushing the round prices one rank down: 9810 is the
      \* 21st bid; the asks start one step above those of the other deep books
      [bids |-> <<<<10000, 3>>, <<9995, 3>>>> \o Ladder(19, 9990, -10, <<3>>, 0, 0),
       asks |-> Ladder(21, 10020, 10, <<7>>, 0, 0)] }

\* ages in seconds of the rows, newest first: 30 s apart; all written in the same
\* second; older than 30 minutes and then older than an hour
AgeProfiles == {"spaced", "tied", "aged"}

AgeOf(profile, i) ==
    CASE profile = "spaced" -> 30 * i
      [] profile = "tied"   -> 30
      [] profile = "aged"   -> IF i = 1 THEN 2000 ELSE 4000

StartTime == 10000

SnapshotTables ==
    UNION { { [i \in 1..n |-> [timestamp |-> StartTime - AgeOf(profile, i),
                               bids |-> books[i].bids, asks |-> books[i].asks]] :
              books \in [1..n -> WindowBooks], profile \in AgeProfiles } :
            n \in 0..MaxSnapshots }

\* n trades, newest first, one second apart, buys and sells alternating
TradeRun(n, buy_price, sell_price, quantity) ==
    [i \in 1..n |-> [timestamp |-> StartTime - i,
                     price |-> IF i % 2 = 1 THEN buy_price ELSE sell_price,
                     quantity |-> quantity,
                     side |-> IF i % 2 = 1 THEN "buy" ELSE "sell"]]

TradeHistories == { <<>>, TradeRun(12, 2000, 2001, 150000) }

Init ==
    /\ now = StartTime
    /\ orderbook_snapshots \in SnapshotTables
    /\ trades \in TradeHistories
    /\ pc = "idle"
    /\ pattern_analysis = None /\ trade_flow = None /\ liquidity_profile = None
    /\ profiler_locals = None /\ response = None
    /\ ob = None /\ liquidity = None /\ depth_levels = None /\ single = None
    /\ mm_metrics = <<>> /\ market_data = <<>> /\ market_presence = None /\ JobsIdle /\ windows = <<>> /\ calls = <<>>

\* get_mm_analysis: 'pattern_analysis': await detector.analyze_order_patterns(..)
AnalyzeOrderPatterns ==
    /\ pc = "idle"
    /\ IF PatternsRaise(FetchPatternSnapshots(orderbook_snapshots, now))
       THEN /\ response' = [status_code |-> 500, detail |-> "ValueError"]
            /\ pc' = "failed"
            /\ UNCHANGED pattern_analysis
       ELSE /\ pattern_analysis' =
                   analyze_order_patterns(FetchPatternSnapshots(orderbook_snapshots, now))
            /\ pc' = "patterns_done"
            /\ UNCHANGED response
    /\ UNCHANGED <<bookVars, windowVars, jobVars, trackerVars, callVars, trade_flow, liquidity_profile, profiler_locals,
                   market_presence>>

\* get_mm_analysis: 'trade_flow': await flow_analyzer.analyze_trade_patterns(..)
AnalyzeTradePatterns ==
    /\ pc = "patterns_done"
    /\ trade_flow' = analyze_trade_patterns(FetchHour(trades, now))
    /\ pc' = "flow_done"
    /\ UNCHANGED <<bookVars, windowVars, jobVars, trackerVars, callVars, pattern_analysis, liquidity_profile,
                   profiler_locals, response, market_presence>>

CalculateLiquidityMetrics_PartialReport ==
    /\ pc = "flow_done"
    /\ LET raises  == ProfilerRaises(FetchHour(orderbook_snapshots, now))
           metrics == IF raises THEN None
                      ELSE calculate_liquidity_metrics(FetchHour(orderbook_snapshots, now))
           missing == raises \/ metrics.status = "raised"
       IN  /\ profiler_locals' = None
           /\ liquidity_profile' = IF missing THEN None ELSE metrics
           /\ response' =
                 [status_code |-> 200,
                  analysis |-> [pattern_analysis |-> pattern_analysis,
                                trade_flow |-> trade_flow,
                                liquidity_profile |-> liquidity_profile'],
                  summary |-> None]
           /\ pc' = "returned"
    /\ UNCHANGED <<bookVars, windowVars, jobVars, trackerVars, callVars, pattern_analysis, trade_flow, market_presence>>

\* get_mm_analysis: 'liquidity_profile': await profiler.calculate_liquidity_metrics(..)
\* and, when it returns, the return of get_mm_analysis and of get_mm_detection; when
\* it raises, the except branch of get_mm_detection: HTTPException(status_code=500)
CalculateLiquidityMetrics ==
    /\ pc = "flow_done"
    /\ IF ProfilerRaises(FetchHour(orderbook_snapshots, now))
       THEN /\ profiler_locals' = None
            /\ liquidity_profile' = None
            /\ response' = [status_code |-> 500, detail |-> "ValueError"]
            /\ pc' = "failed"
       ELSE LET metrics == calculate_liquidity_metrics(FetchHour(orderbook_snapshots, now))
            IN  /\ profiler_locals' = ProfilerLocals(FetchHour(orderbook_snapshots, now))
                /\ IF metrics.status = "raised"
                   THEN /\ liquidity_profile' = None
                        /\ response' = [status_code |-> 500, detail |-> metrics.exception]
                        /\ pc' = "failed"
                   ELSE /\ liquidity_profile' = metrics
                        /\ response' =
                             [status_code |-> 200,
                              analysis |-> [pattern_analysis |-> pattern_analysis,
                                            trade_flow |-> trade_flow,
                                            liquidity_profile |-> metrics],
                              summary |->
                                [mm_probability |-> pattern_analysis.mm_probability_score,
                                 liquidity_score |-> metrics.liquidity_score,
                                 detected_patterns |->
                                   [round_numbers |->
                                        Len(pattern_analysis.round_number_orders),
                                    symmetric_orders |->
                                        Len(pattern_analysis.symmetric_orders),
                                    order_walls |-> Len(pattern_analysis.order_walls),
                                    ping_pong_trades |->
                                        Len(trade_flow.ping_pong_trades)]]]
                        /\ pc' = "returned"
    /\ UNCHANGED <<bookVars, windowVars, jobVars, trackerVars, callVars, pattern_analysis, trade_flow, market_presence>>

Next ==
    \/ AnalyzeOrderPatterns
    \/ AnalyzeTradePatterns
    \/ CalculateLiquidityMetrics

Spec == Init /\ [][Next]_vars

(***************************************************************************)
(* SpecFlow: the same request against trade histories of up to MaxTrades   *)
(* trades, newest first and one second apart, and a snapshot table that is *)
(* empty or holds one book.                                                *)
(***************************************************************************)
MaxTrades == 12

SidePatterns == {"alternate", "four_six", "three_seven"}

\* the side of the i-th newest trade
SideOf(pattern, i) ==
    CASE pattern = "alternate"   -> IF i % 2 = 1 THEN "buy" ELSE "sell"
      [] pattern = "four_six"    -> IF i <= 4 THEN "buy" ELSE "sell"
      [] pattern = "three_seven" -> IF i <= 3 THEN "buy" ELSE "sell"

BuyPrices == {65000}

\* 0.015%, exactly 0.1% and 1.5% above the buy price
SellPrices == {65010, 65065, 66000}

QuantityPatterns == {"same", "near", "five", "six", "two"}

\* quantities in units of 0.00001: one size; two sizes that round to the same
\* fourth decimal; a size met five times, or six times, among distinct ones; two
\* sizes that round apart
QuantityOf(pattern, i) ==
    CASE pattern = "same" -> 150000
      [] pattern = "near" -> IF i % 2 = 1 THEN 150000 ELSE 150004
      [] pattern = "five" -> IF i <= 5 THEN 150000 ELSE 200000 + 10 * i
      [] pattern = "six"  -> IF i <= 6 THEN 150000 ELSE 200000 + 10 * i
      [] pattern = "two"  -> IF i % 2 = 1 THEN 150000 ELSE 150006

\* with stale set the trades after the tenth are older than the hour of the query
TradeTable(n, sides, buy_price, sell_price, quantities, stale) ==
    [i \in 1..n |->
        [timestamp |-> IF stale /\ i > 10 THEN StartTime - HourSeconds - i
                       ELSE StartTime - i,
         price     |-> IF SideOf(sides, i) = "buy" THEN buy_price ELSE sell_price,
         quantity  |-> QuantityOf(quantities, i),
         side      |-> SideOf(sides, i)]]

FlowHistories ==
    {<<>>} \cup
    { TradeTable(n, sides, bp, sp, q, stale) :
        n \in 9..MaxTrades, sides \in SidePatterns, bp \in BuyPrices,
        sp \in SellPrices, q \in QuantityPatterns, stale \in BOOLEAN }

FlowSnapshotTables ==
    { <<>>,
      << [timestamp |-> StartTime - 30,
          bids |-> <<<<10000, 6>>, <<9990, 6>>>>,
          asks |-> <<<<10005, 6>>, <<10010, 6>>>>] >> }

InitFlow ==
    /\ now = StartTime
    /\ orderbook_snapshots \in FlowSnapshotTables
    /\ trades \in FlowHistories
    /\ pc = "idle"
    /\ pattern_analysis = None /\ trade_flow = None /\ liquidity_profile = None
    /\ profiler_locals = None /\ response = None
    /\ ob = None /\ liquidity = None /\ depth_levels = None /\ single = None
    /\ mm_metrics = <<>> /\ market_data = <<>> /\ market_presence = None /\ JobsIdle /\ windows = <<>> /\ calls = <<>>

SpecFlow == InitFlow /\ [][Next]_vars

(***************************************************************************)
(* SpecRecords: the same request against tables of up to MaxRecordRows     *)
(* snapshots of which some hold a malformed price or size.                 *)
(***************************************************************************)
MaxRecordRows == 2

RecordBooks ==
    { \* well-formed
      [bids |-> <<<<10000, 6>>, <<9990, 6>>>>, asks |-> <<<<10005, 6>>, <<10010, 6>>>>],
      \* a malformed bid price at the second level
      [bids |-> <<<<10000, 6>>, <<Malformed, 6>>>>, asks |-> <<<<10005, 6>>>>],
      \* a malformed ask size at the second level
      [bids |-> <<<<10000, 6>>>>, asks |-> <<<<10005, 6>>, <<10010, Malformed>>>>],
      \* a malformed bid price at the 21st level
      [bids |-> Ladder(20, 10000, -10, <<2>>, 0, 0) \o <<<<Malformed, 2>>>>,
       asks |-> Ladder(20, 10010, 10, <<3>>, 0, 0)] }

RecordProfiles == {"spaced", "tied"}

RecordTables ==
    UNION { { [i \in 1..n |-> [timestamp |-> StartTime - AgeOf(profile, i),
                               bids |-> books[i].bids, asks |-> books[i].asks]] :
              books \in [1..n -> RecordBooks], profile \in RecordProfiles } :
            n \in 0..MaxRecordRows }

InitRecords ==
    /\ now = StartTime
    /\ orderbook_snapshots \in RecordTables
    /\ trades \in TradeHistories
    /\ pc = "idle"
    /\ pattern_analysis = None /\ trade_flow = None /\ liquidity_profile = None
    /\ profiler_locals = None /\ response = None
    /\ ob = None /\ liquidity = None /\ depth_levels = None /\ single = None
    /\ mm_metrics = <<>> /\ market_data = <<>> /\ market_presence = None /\ JobsIdle /\ windows = <<>> /\ calls = <<>>

SpecRecords == InitRecords /\ [][Next]_vars

(***************************************************************************)
(* SpecCalls: up to MaxCalls requests GET /api/mm/detection/{symbol} for   *)
(* any identifiers, served by one event loop.  Every request runs in its   *)
(* own frame; a frame yields at each of the three awaits of                *)
(* get_mm_analysis, where the frames of other requests may run.  The       *)
(* tables hold rows for the tracked pairs only.                            *)
(***************************************************************************)
MaxCalls == 2

\* identifiers a caller may send; "unlisted" is no exchange of the collector
RequestExchanges == Exchanges \cup {"unlisted"}

TrackedPairs == Symbols \X Exchanges

EmptyWindow == [snapshots |-> <<>>, trades |-> <<>>]

TightBook(age) ==
    [timestamp |-> StartTime - age,
     bids |-> <<<<10000, 6>>, <<9990, 6>>>>, asks |-> <<<<10005, 6>>, <<10010, 6>>>>]

WideBook(age) ==
    [timestamp |-> StartTime - age, bids |-> <<<<10000, 2>>>>, asks |-> <<<<10100, 1>>>>]

StoredWindows ==
    { EmptyWindow,
      [snapshots |-> <<TightBook(30), WideBook(60)>>,
       trades |-> TradeRun(12, 2000, 2001, 150000)],
      [snapshots |-> <<WideBook(30), TightBook(60)>>, trades |-> <<>>] }

\* WHERE symbol = $1 AND exchange = $2
WindowOf(symbol, exchange) ==
    IF <<symbol, exchange>> \in DOMAIN windows THEN windows[<<symbol, exchange>>]
    ELSE EmptyWindow

\* the frame of a request that has just entered get_mm_detection
NewFrame(symbol, exchange) ==
    [symbol |-> symbol, exchange |-> exchange, pc |-> "idle",
     pattern_analysis |-> None, trade_flow |-> None, liquidity_profile |-> None,
     response |-> None]

Failed(frame, exception) ==
    [frame EXCEPT !.pc = "failed",
                  !.response = [status_code |-> 500, detail |-> exception]]

\* the event lists start from those of the last frame the detector has served
AfterPatterns_Accumulating(frame, t_now) ==
    LET rows == FetchPatternSnapshots(WindowOf(frame.symbol, frame.exchange).snapshots,
                                      t_now)
        served == {c \in 1..Len(calls) : calls[c].pattern_analysis # None}
        start == IF served = {} THEN EmptyPatterns
                 ELSE calls[CHOOSE c \in served : \A d \in served : d <= c].pattern_analysis
        analysis == PatternLoop(rows, 1, start)
    IN  [frame EXCEPT !.pc = "patterns_done",
                      !.pattern_analysis =
                          [round_number_orders |-> analysis.round_number_orders,
                           symmetric_orders    |-> analysis.symmetric_orders,
                           order_walls         |-> analysis.order_walls,
                           spoofing_candidates |-> analysis.spoofing_candidates,
                           persistent_levels   |-> analysis.persistent_levels,
                           rapid_changes       |-> analysis.rapid_changes,
                           mm_probability_score |-> calculate_mm_score(analysis)]]

\* 'pattern_analysis': await detector.analyze_order_patterns(symbol, exchange)
AfterPatterns(frame, t_now) ==
    LET rows == FetchPatternSnapshots(WindowOf(frame.symbol, frame.exchange).snapshots,
                                      t_now)
    IN  IF PatternsRaise(rows) THEN Failed(frame, "ValueError")
        ELSE [frame EXCEPT !.pc = "patterns_done",
                           !.pattern_analysis = analyze_order_patterns(rows)]

\* the analyzer is shared and holds the identifiers of the request that came last
AfterFlow_SharedAnalyzer(frame, t_now) ==
    LET last == calls[Len(calls)]
        rows == FetchHour(WindowOf(last.symbol, last.exchange).trades, t_now)
    IN  [frame EXCEPT !.pc = "flow_done", !.trade_flow = analyze_trade_patterns(rows)]

\* 'trade_flow': await flow_analyzer.analyze_trade_patterns(symbol, exchange)
AfterFlow(frame, t_now) ==
    LET rows == FetchHour(WindowOf(frame.symbol, frame.exchange).trades, t_now)
    IN  [frame EXCEPT !.pc = "flow_done", !.trade_flow = analyze_trade_patterns(rows)]

\* 'liquidity_profile': await profiler.calculate_liquidity_metrics(symbol, exchange),
\* then the return of get_mm_analysis and the response of get_mm_detection
AfterProfile(frame, t_now) ==
    LET rows == FetchHour(WindowOf(frame.symbol, frame.exchange).snapshots, t_now)
    IN  IF ProfilerRaises(rows) THEN Failed(frame, "ValueError")
        ELSE LET metrics == calculate_liquidity_metrics(rows)
             IN  IF metrics.status = "raised" THEN Failed(frame, metrics.exception)
                 ELSE [frame EXCEPT
                         !.pc = "returned",
                         !.liquidity_profile = metrics,
                         !.response =
                            [status_code |-> 200,
                             analysis |-> [pattern_analysis |-> frame.pattern_analysis,
                                           trade_flow |-> frame.trade_flow,
                                           liquidity_profile |-> metrics],
                             summary |->
                               [mm_probability |->
                                    frame.pattern_analysis.mm_probability_score,
                                liquidity_score |-> metrics.liquidity_score]]]

InitCalls ==
    /\ now = StartTime
    /\ windows \in [TrackedPairs -> StoredWindows]
    /\ calls = <<>>
    /\ orderbook_snapshots = <<>> /\ trades = <<>> /\ market_data = <<>>
    /\ pc = "idle"
    /\ pattern_analysis = None /\ trade_flow = None /\ liquidity_profile = None
    /\ profiler_locals = None /\ response = None
    /\ ob = None /\ liquidity = None /\ depth_levels = None /\ single = None
    /\ mm_metrics = <<>> /\ market_presence = None /\ JobsIdle

\* a request arrives: get_mm_detection(symbol, exchange) is entered
GetMmDetection(symbol, exchange) ==
    /\ Len(calls) < MaxCalls
    /\ calls' = Append(calls, NewFrame(symbol, exchange))
    /\ UNCHANGED <<bookVars, windowVars, jobVars, trackerVars, requestVars, windows>>

\* the event loop resumes the frame c up to its next await or its end
Resume(c) ==
    /\ calls[c].pc \in {"idle", "patterns_done", "flow_done"}
    /\ calls' = [calls EXCEPT ![c] =
                    CASE calls[c].pc = "idle"          -> AfterPatterns(calls[c], now)
                      [] calls[c].pc = "patterns_done" -> AfterFlow(calls[c], now)
                      [] calls[c].pc = "flow_done"     -> AfterProfile(calls[c], now)]
    /\ UNCHANGED <<bookVars, windowVars, jobVars, trackerVars, requestVars, windows>>

NextCalls ==
    \/ \E symbol \in Symbols, exchange \in RequestExchanges : GetMmDetection(symbol, exchange)
    \/ \E c \in 1..Len(calls) : Resume(c)

SpecCalls == InitCalls /\ [][NextCalls]_vars

(***************************************************************************)
(* main.py: calculate_market_presence and calculate_mm_metrics              *)
(***************************************************************************)
MinuteSeconds == 60              \* INTERVAL '1 minute', date_trunc('minute', ..)

MetricsWindowSeconds == 300      \* INTERVAL '5 minutes'

expected_data_points == 10       \* 5 minutes at 30-second intervals

\* date_trunc('minute', t), as the number of the minute
Minute(t) == t \div MinuteSeconds

\* generate_series(NOW() - INTERVAL 'h hours', NOW(), INTERVAL '1 minute')
TimeSlots(t_now, hours) ==
    {t_now - hours * HourSeconds + k * MinuteSeconds : k \in 0..(hours * 60)}

PresenceRows(table, t_now, hours) ==
    SelectSeq(table, LAMBDA r : /\ r.timestamp > t_now - hours * HourSeconds
                                /\ Len(r.bids) > 0
                                /\ Len(r.asks) > 0)

\* orderbook_presence: SELECT DISTINCT date_trunc('minute', timestamp)
OrderbookPresence(table, t_now, hours) ==
    LET rows == PresenceRows(table, t_now, hours)
    IN  {Minute(rows[i].timestamp) : i \in 1..Len(rows)}

calculate_market_presence_PerRow(table, t_now, hours) ==
    LET slots  == TimeSlots(t_now, hours)
        rows   == PresenceRows(table, t_now, hours)
        joined == {i \in 1..Len(rows) : \E slot \in slots : Minute(slot) = Minute(rows[i].timestamp)}
    IN  IF Cardinality(joined) = 0 THEN <<0, 1>>
        ELSE Frac(Cardinality(joined) * 100, Cardinality(slots))

\* COUNT(DISTINCT op.minute) * 100.0 / NULLIF(COUNT(DISTINCT ts.slot), 0) over
\* time_slots LEFT JOIN orderbook_presence ON date_trunc('minute', ts.slot) = op.minute;
\* return float(result) if result else 0.0
calculate_market_presence(table, t_now, hours) ==
    LET slots  == TimeSlots(t_now, hours)
        joined == {m \in OrderbookPresence(table, t_now, hours) :
                      \E slot \in slots : Minute(slot) = m}
    IN  IF Cardinality(joined) = 0 THEN <<0, 1>>
        ELSE Frac(Cardinality(joined) * 100, Cardinality(slots))

\* keys of a dict filled from a sequence, in insertion order
RECURSIVE KeysInOrder(_, _)
KeysInOrder(s, seen) ==
    IF s = <<>> THEN <<>>
    ELSE IF Head(s) \in seen THEN KeysInOrder(Tail(s), seen)
    ELSE <<Head(s)>> \o KeysInOrder(Tail(s), seen \cup {Head(s)})

\* SELECT .. FROM market_data WHERE symbol = $1
\* AND timestamp > NOW() - INTERVAL '5 minutes' ORDER BY timestamp DESC
FetchMarketData(table, t_now) ==
    SelectSeq(table, LAMBDA r : r.timestamp > t_now - MetricsWindowSeconds)

\* the rows with "bid_price and ask_price and bid_price > 0"
QuotedRows(rows) ==
    SelectSeq(rows, LAMBDA r : r.bid_price # 0 /\ r.ask_price # 0 /\ r.bid_price > 0)

\* min(uptime_pct, 100) with uptime_pct = (len(rows) / expected_data_points) * 100
UptimePct(rows) ==
    LET uptime_pct == Frac(Len(rows) * 100, expected_data_points)
    IN  IF FracLeq(uptime_pct, FracInt(100)) THEN uptime_pct ELSE FracInt(100)

\* the row calculate_mm_metrics inserts for one exchange
MetricsOf(exchange, symbol, rows, t_now) ==
    LET quoted  == QuotedRows(rows)
        spreads == [i \in 1..Len(quoted) |->
                       SpreadBps(quoted[i].bid_price, quoted[i].ask_price)]
    IN  [exchange |-> exchange, symbol |-> symbol, timestamp |-> t_now,
         spread_bps |-> IF spreads # <<>> THEN FracMean(spreads) ELSE <<0, 1>>,
         bid_depth_1pct |-> IntMean([i \in 1..Len(rows) |-> rows[i].bid_volume]),
         ask_depth_1pct |-> IntMean([i \in 1..Len(rows) |-> rows[i].ask_volume]),
         bid_depth_2pct |-> NULL, ask_depth_2pct |-> NULL,
         quote_count |-> Len(rows),
         uptime_pct |-> UptimePct(rows)]

\* the rows calculate_mm_metrics inserts for one symbol, one per exchange that
\* has market data in the last 5 minutes
calculate_mm_metrics(table, symbol, t_now) ==
    LET data == FetchMarketData(table, t_now)
        exchanges == KeysInOrder([i \in 1..Len(data) |-> data[i].exchange], {})
    IN  [k \in 1..Len(exchanges) |->
            MetricsOf(exchanges[k], symbol,
                      SelectSeq(data, LAMBDA r : r.exchange = exchanges[k]), t_now)]

(***************************************************************************)
(* SpecPresence: the presence and uptime figures over stored tables.  The   *)
(* order-book table holds at most MaxPresenceRows rows, the metrics job     *)
(* runs while mm_metrics holds fewer than MaxMetricRows rows.               *)
(***************************************************************************)
MaxPresenceRows == 2

MaxMetricRows == 2

\* ages of the stored order books, in seconds
PresenceAges == {5, 20, 65, 3590, 3650}

PresenceBooks ==
    { [bids |-> <<<<10000, 2>>>>, asks |-> <<<<10010, 2>>>>],
      [bids |-> <<<<10000, 2>>>>, asks |-> <<<<9990, 2>>>>],
      [bids |-> <<>>, asks |-> <<<<10005, 1>>>>] }

\* the n smallest ages of a set, smallest first: the table is newest first
RECURSIVE Ascending(_)
Ascending(ages) ==
    IF ages = {} THEN <<>>
    ELSE LET a == CHOOSE x \in ages : \A y \in ages : x <= y
         IN  <<a>> \o Ascending(ages \ {a})

PresenceTables(t_now) ==
    UNION { { [i \in 1..Len(Ascending(ages)) |->
                  [timestamp |-> t_now - Ascending(ages)[i],
                   bids |-> books[i].bids, asks |-> books[i].asks]] :
              books \in [1..Cardinality(ages) -> PresenceBooks] } :
            ages \in {a \in SUBSET PresenceAges : Cardinality(a) <= MaxPresenceRows} }

\* quotes of one exchange, 20 s apart or all in the newest 30 s, every third one
\* crossed and every fourth without a bid price
MarketRows(exchange, n, gap, t_now) ==
    [i \in 1..n |-> [exchange |-> exchange, timestamp |-> t_now - gap * i,
                     bid_price |-> IF i % 4 = 0 THEN 0 ELSE 10000,
                     ask_price |-> IF i % 3 = 0 THEN 9990 ELSE 10010,
                     bid_volume |-> i, ask_volume |-> 2]]

\* the tables of market_data: empty; 3 quotes in one minute; 11 quotes over 4
\* minutes; quotes of a second exchange, one of them older than 5 minutes
MarketTables(t_now) ==
    { <<>>,
      MarketRows("binance_spot", 3, 2, t_now),
      MarketRows("binance_spot", 11, 20, t_now),
      MarketRows("binance_spot", 3, 2, t_now) \o MarketRows("gate", 2, 200, t_now) }

InitPresence ==
    /\ now \in {StartTime, StartTime + 20}
    /\ orderbook_snapshots \in PresenceTables(now)
    /\ market_data \in MarketTables(now)
    /\ mm_metrics = <<>>
    /\ market_presence = None /\ JobsIdle /\ windows = <<>> /\ calls = <<>>
    /\ trades = <<>>
    /\ pc = "idle"
    /\ pattern_analysis = None /\ trade_flow = None /\ liquidity_profile = None
    /\ profiler_locals = None /\ response = None
    /\ ob = None /\ liquidity = None /\ depth_levels = None /\ single = None

\* calculate_market_presence(symbol, exchange, hours)
CalculateMarketPresence(hours) ==
    /\ market_presence' =
           [hours |-> hours,
            ret |-> calculate_market_presence(orderbook_snapshots, now, hours)]
    /\ UNCHANGED <<bookVars, windowVars, jobVars, trackerVars, callVars, pc, pattern_analysis, trade_flow,
                   liquidity_profile, profiler_locals, response>>

\* the scheduled job calculate_mm_metrics, for the one tracked symbol
CalculateMmMetrics(symbol) ==
    /\ Len(mm_metrics) < MaxMetricRows
    /\ mm_metrics' = mm_metrics \o calculate_mm_metrics(market_data, symbol, now)
    /\ UNCHANGED <<ob, liquidity, depth_levels, single, windowVars, jobVars, trackerVars, callVars, requestVars>>

NextPresence ==
    \/ \E hours \in {1, 24} : CalculateMarketPresence(hours)
    \/ \E symbol \in Symbols : CalculateMmMetrics(symbol)

SpecPresence == InitPresence /\ [][NextPresence]_vars

(***************************************************************************)
(* Claims about the per-book functions (SpecBook)                          *)
(***************************************************************************)
BestBid == ob.bids[1][1]

BestAsk == ob.asks[1][1]

TwoSided == ob.bids # <<>> /\ ob.asks # <<>>

NonCrossed == TwoSided /\ BestBid < BestAsk

\* indices of the depth_pcts of the last call whose value the returned dict holds
Written ==
    { i \in 1..Len(liquidity.depth_pcts) :
        \A j \in 1..Len(liquidity.depth_pcts) :
            DepthKey(liquidity.depth_pcts[j]) = DepthKey(liquidity.depth_pcts[i]) => j <= i }

RetOf(i) == liquidity.ret[DepthKey(liquidity.depth_pcts[i])]

RECURSIVE SumOver(_, _)
SumOver(levels, idx) ==
    IF idx = {} THEN 0
    ELSE LET i == CHOOSE k \in idx : TRUE
         IN  levels[i][2] + SumOver(levels, idx \ {i})

\* C4: for band percentages p1 < p2 the bid depth, the ask depth and the combined
\* depth of p1 are each at most those of p2, in calculate_liquidity_depth and in
\* calculate_depth_levels
C4_DepthMonotone ==
    /\ liquidity # None =>
         \A i, j \in 1..Len(liquidity.depth_pcts) :
            liquidity.depth_pcts[i] < liquidity.depth_pcts[j] =>
               /\ BidLiquidity(ob.bids, MidPrice(ob.bids, ob.asks), liquidity.depth_pcts[i])
                    <= BidLiquidity(ob.bids, MidPrice(ob.bids, ob.asks), liquidity.depth_pcts[j])
               /\ AskLiquidity(ob.asks, MidPrice(ob.bids, ob.asks), liquidity.depth_pcts[i])
                    <= AskLiquidity(ob.asks, MidPrice(ob.bids, ob.asks), liquidity.depth_pcts[j])
               /\ (i \in Written /\ j \in Written) => RetOf(i) <= RetOf(j)
    /\ depth_levels # None =>
         \A i, j \in 1..Len(DepthBands) :
            DepthBands[i][2] < DepthBands[j][2] =>
               /\ depth_levels[DepthBands[i][1]].bid_volume
                    <= depth_levels[DepthBands[j][1]].bid_volume
               /\ depth_levels[DepthBands[i][1]].ask_volume
                    <= depth_levels[DepthBands[j][1]].ask_volume

C4_Witness ==
    /\ liquidity # None /\ depth_levels # None
    /\ 1000 \in {liquidity.depth_pcts[i] : i \in 1..Len(liquidity.depth_pcts)}
    /\ liquidity.ret[0] < liquidity.ret[1]
    /\ depth_levels["0.5%"].bid_volume < depth_levels["1%"].bid_volume
    /\ depth_levels["0.5%"].ask_volume < depth_levels["1%"].ask_volume

FullBookCall ==
    /\ liquidity # None
    /\ \E i \in Written : liquidity.depth_pcts[i] = 1000

\* C5 as stated: for a non-crossed snapshot the depth at band = 100% is the sum of
\* the sizes of all bid and all ask levels
C5_FullBookIsTotal ==
    (NonCrossed /\ FullBookCall) =>
        liquidity.ret[100] = SumSeq(Sizes(ob.bids)) + SumSeq(Sizes(ob.asks))

\* C5 amended: for a non-crossed snapshot the depth at band = 100% is the sum of
\* the sizes of all bid levels and of the ask levels priced at most twice the
\* mid-price (best_bid + best_ask); dearer ask levels are left out
C5_FullBookUpToTwiceMid ==
    (NonCrossed /\ FullBookCall) =>
        liquidity.ret[100] =
            SumSeq(Sizes(ob.bids))
          + SumOver(ob.asks, {i \in 1..Len(ob.asks) : ob.asks[i][1] <= BestBid + BestAsk})

C5_Witness ==
    /\ NonCrossed /\ FullBookCall
    /\ \E i \in 1..Len(ob.asks) : ob.asks[i][1] > BestBid + BestAsk
    /\ liquidity.ret[100] > SumSeq(Sizes(ob.bids))

\* the levels the band rule of the specification admits, by cross-multiplication:
\* price >= mid * (1 - pct/100) and price <= mid * (1 + pct/100), mid = (bb + ba)/2
InBidBand(price, pct) == price * 2000 >= (BestBid + BestAsk) * (1000 - pct)

InAskBand(price, pct) == price * 2000 <= (BestBid + BestAsk) * (1000 + pct)

BandBidVolume(pct) ==
    SumOver(ob.bids, {i \in 1..Len(ob.bids) : InBidBand(ob.bids[i][1], pct)})

BandAskVolume(pct) ==
    SumOver(ob.asks, {i \in 1..Len(ob.asks) : InAskBand(ob.asks[i][1], pct)})

TopIdx(levels) == 1..Min(TopLevels, Len(levels))

RoundIdx(levels) == {i \in TopIdx(levels) : levels[i][1] % 10 = 0 \/ levels[i][1] % 100 = 0}

EventsFor(events, side, level) ==
    {e \in 1..Len(events) : /\ events[e].side = side
                            /\ events[e].price = level[1]
                            /\ events[e].volume = level[2]}

\* C9: the detector emits exactly one round_number event (side, price, volume) for
\* each of the top-20 bid levels and each of the top-20 ask levels whose price is a
\* multiple of 10 or 100, and none for any other level
C9_RoundNumberEvents ==
    single # None =>
        LET events == single.round_number_orders
        IN  /\ \A i \in RoundIdx(ob.bids) :
                  Cardinality(EventsFor(events, "bid", ob.bids[i])) = 1
            /\ \A i \in RoundIdx(ob.asks) :
                  Cardinality(EventsFor(events, "ask", ob.asks[i])) = 1
            /\ Len(events) = Cardinality(RoundIdx(ob.bids)) + Cardinality(RoundIdx(ob.asks))
            /\ \A e \in 1..Len(events) :
                  \/ /\ events[e].side = "bid"
                     /\ \E i \in RoundIdx(ob.bids) : e \in EventsFor(events, "bid", ob.bids[i])
                  \/ /\ events[e].side = "ask"
                     /\ \E i \in RoundIdx(ob.asks) : e \in EventsFor(events, "ask", ob.asks[i])

\* a deep book: round prices at ranks 11..20 of both sides, a round ask price at
\* rank 21 and a bid price at rank 2 that is no multiple of 10
C9_Witness ==
    /\ single # None
    /\ Len(ob.asks) > TopLevels /\ ob.asks[TopLevels + 1][1] % 10 = 0
    /\ \E i \in 11..TopLevels : i \in RoundIdx(ob.bids)
    /\ \E i \in 11..TopLevels : i \in RoundIdx(ob.asks)
    /\ 2 \notin RoundIdx(ob.bids)
    /\ Len(single.round_number_orders) > 3

\* the specification's example: a bid level at 65000 with volume 10 yields exactly
\* one round_number event for that level
C9_ExampleWitness ==
    /\ single # None
    /\ ob.bids # <<>> /\ ob.bids[1] = <<65000, 10>>
    /\ Cardinality(EventsFor(single.round_number_orders, "bid", <<65000, 10>>)) = 1

TopVolumes(levels) == {levels[i][2] : i \in TopIdx(levels)}

PricesOf(levels, volume) == {levels[i][1] : i \in {k \in TopIdx(levels) : levels[k][2] = volume}}

\* C10: every volume that occurs among the top-20 bid levels and among the top-20
\* ask levels yields exactly one symmetric_pair event (bid_price, ask_price,
\* spread = ask_price - bid_price) whose prices are those of levels carrying that
\* volume; a volume present on one side only yields none
C10_SymmetricEvents ==
    single # None =>
        LET events == single.symmetric_orders
        IN  /\ \A v \in TopVolumes(ob.bids) \cap TopVolumes(ob.asks) :
                  Cardinality({e \in 1..Len(events) : events[e].volume = v}) = 1
            /\ \A e \in 1..Len(events) :
                  /\ events[e].volume \in TopVolumes(ob.bids) \cap TopVolumes(ob.asks)
                  /\ events[e].bid_price \in PricesOf(ob.bids, events[e].volume)
                  /\ events[e].ask_price \in PricesOf(ob.asks, events[e].volume)
                  /\ events[e].spread = events[e].ask_price - events[e].bid_price

\* a deep book in which volume 6 sits at rank 21 of the asks and in the top 20 of
\* the bids only, and volume 1 on several levels of both sides
C10_Witness ==
    /\ single # None
    /\ Len(ob.asks) > TopLevels /\ ob.asks[TopLevels + 1][2] = 6
    /\ 6 \in TopVolumes(ob.bids) /\ 6 \notin TopVolumes(ob.asks)
    /\ Len(single.symmetric_orders) = 1

\* the specification's example, sizes in whole units: bid 64990 and ask 65010 with
\* the same volume yield exactly one symmetric event, with spread = 20
C10_ExampleWitness ==
    /\ single # None
    /\ ob.bids = <<<<65000, 10>>, <<64990, 3>>>> /\ ob.asks = <<<<65010, 3>>>>
    /\ Len(single.symmetric_orders) = 1
    /\ single.symmetric_orders[1].bid_price = 64990
    /\ single.symmetric_orders[1].ask_price = 65010
    /\ single.symmetric_orders[1].spread = 20

(***************************************************************************)
(* Claims about one request against a stored window (Spec)                 *)
(***************************************************************************)
\* C1: mm_probability_score = 20[#round_number_orders > 5] + 30[#symmetric_orders > 3]
\* + 15[#order_walls > 0] + 20[#rapid_changes > 10] + 15[#persistent_levels > 5],
\* clamped to [0, 100], for every analysis result
C1_MmScoreFormula ==
    pattern_analysis # None =>
        LET sum == 20 * Indicator(Len(pattern_analysis.round_number_orders) > 5)
                 + 30 * Indicator(Len(pattern_analysis.symmetric_orders) > 3)
                 + 15 * Indicator(Len(pattern_analysis.order_walls) > 0)
                 + 20 * Indicator(Len(pattern_analysis.rapid_changes) > 10)
                 + 15 * Indicator(Len(pattern_analysis.persistent_levels) > 5)
        IN  /\ pattern_analysis.mm_probability_score
                 = (IF sum > 100 THEN 100 ELSE IF sum < 0 THEN 0 ELSE sum)
            /\ pattern_analysis.mm_probability_score \in 0..100

\* an analysis in which the round-number, symmetric, wall and rapid-change terms
\* all count, and one with exactly 4 symmetric events
C1_Witness ==
    /\ pattern_analysis # None
    /\ pattern_analysis.mm_probability_score = 85
    /\ Len(pattern_analysis.symmetric_orders) = 4
    /\ Len(pattern_analysis.rapid_changes) > 10

ProfilerRan == pc \in {"returned", "failed"}

WindowRows == FetchHour(orderbook_snapshots, now)

ValidRows ==
    SelectSeq(WindowRows,
              LAMBDA r : r.bids # <<>> /\ r.asks # <<>> /\ r.bids[1][1] < r.asks[1][1])

\* C2: for every window calculate_liquidity_metrics returns liquidity_score =
\* 30[avg_spread_bps < 10] + 20[spread_stdev < 5] + 25[depth_1pct > 10]
\* + 25[|mean_imbalance| < 0.2], a value in [0, 100], depth_1pct being the mean
\* 1%-band (bid) depth and mean_imbalance the mean of the imbalance samples
C2_LiquidityScoreFormula ==
    ProfilerRan =>
        /\ liquidity_profile # None
        /\ liquidity_profile.liquidity_score
             = 30 * Indicator(FracLess(liquidity_profile.avg_spread_bps, <<10, 1>>))
             + 20 * Indicator(FracLess(liquidity_profile.spread_volatility_sq, <<25, 1>>))
             + 25 * Indicator(FracLess(<<10, 1>>, liquidity_profile.bid_depth_levels["1%"]))
             + 25 * Indicator(FracLess(FracAbs(liquidity_profile.order_book_imbalance.mean),
                                       <<1, 5>>))
        /\ liquidity_profile.liquidity_score \in 0..100

\* C3: with no snapshots and no trades in the window the evaluation raises no error
\* and returns a report whose event lists are all empty and whose
\* mm_probability_score and liquidity_score are 0
C3_EmptyWindowReport ==
    (ProfilerRan /\ WindowRows = <<>> /\ FetchHour(trades, now) = <<>>) =>
        /\ response.status_code = 200
        /\ response.analysis.pattern_analysis.round_number_orders = <<>>
        /\ response.analysis.pattern_analysis.symmetric_orders = <<>>
        /\ response.analysis.pattern_analysis.order_walls = <<>>
        /\ response.analysis.pattern_analysis.rapid_changes = <<>>
        /\ response.analysis.trade_flow.ping_pong_trades = <<>>
        /\ response.analysis.trade_flow.size_patterns = <<>>
        /\ response.summary.mm_probability = 0
        /\ response.summary.liquidity_score = 0

\* C7: a crossed snapshot (best_bid >= best_ask) adds no spread, imbalance or depth
\* sample, so every spread_bps that enters the statistics is >= 0
C7_CrossedExcluded ==
    ProfilerRan =>
        /\ \A i \in 1..Len(profiler_locals.spreads) : profiler_locals.spreads[i][1] >= 0
        /\ Len(profiler_locals.spreads) = Len(ValidRows)
        /\ Len(profiler_locals.imbalances) <= Len(ValidRows)
        /\ \A n \in ProfilerBandNames :
              Len(profiler_locals.bid_depth_levels[n]) = Len(ValidRows)

(***************************************************************************)
(* Claims about the presence and uptime figures (SpecPresence)             *)
(***************************************************************************)
InPresenceWindow(r, hours) == r.timestamp > now - hours * HourSeconds

\* minute-buckets of the window holding a snapshot with both sides non-empty
QuotedMinutes(hours) ==
    {Minute(orderbook_snapshots[i].timestamp) :
        i \in {k \in 1..Len(orderbook_snapshots) :
                 /\ InPresenceWindow(orderbook_snapshots[k], hours)
                 /\ orderbook_snapshots[k].bids # <<>>
                 /\ orderbook_snapshots[k].asks # <<>>}}

\* minute-buckets of the window holding a valid (two-sided, non-crossed) snapshot
ValidMinutes(hours) ==
    {Minute(orderbook_snapshots[i].timestamp) :
        i \in {k \in 1..Len(orderbook_snapshots) :
                 /\ InPresenceWindow(orderbook_snapshots[k], hours)
                 /\ orderbook_snapshots[k].bids # <<>>
                 /\ orderbook_snapshots[k].asks # <<>>
                 /\ orderbook_snapshots[k].bids[1][1] < orderbook_snapshots[k].asks[1][1]}}

\* the market_data rows of an exchange inside the 5-minute window
RowsOf(exchange) ==
    {i \in 1..Len(market_data) : /\ market_data[i].exchange = exchange
                                 /\ market_data[i].timestamp > now - MetricsWindowSeconds}

CappedPct(part, whole) == IF part >= whole THEN <<100, 1>> ELSE Frac(part * 100, whole)

InPercentRange(x) == FracLeq(<<0, 1>>, x) /\ FracLeq(x, <<100, 1>>)

\* C8 as stated: the stored presence/uptime percentage is in [0, 100], is 0 for an
\* empty window and equals distinct minute-buckets holding a valid snapshot over
\* expected minute-buckets, times 100, capped at 100, so that several records in
\* one minute count once
C8_PresenceDistinctValidMinutes ==
    /\ market_presence # None =>
          /\ InPercentRange(market_presence.ret)
          /\ market_presence.ret
               = CappedPct(Cardinality(ValidMinutes(market_presence.hours)),
                           market_presence.hours * 60 + 1)
    /\ \A i \in 1..Len(mm_metrics) :
          /\ InPercentRange(mm_metrics[i].uptime_pct)
          /\ mm_metrics[i].uptime_pct
               = CappedPct(Cardinality({Minute(market_data[k].timestamp) :
                                           k \in RowsOf(mm_metrics[i].exchange)}),
                           MetricsWindowSeconds \div MinuteSeconds)

\* C8, the figures as the code computes them: calculate_market_presence returns a
\* value in [0, 100], 0 for an empty window, equal to 100 times the number of
\* distinct minute-buckets of the window holding a snapshot with non-empty bids and
\* asks (crossed or not) over the 60*hours + 1 one-minute slots; the uptime_pct
\* stored by calculate_mm_metrics is in [0, 100] and equals the number of
\* market_data rows of the exchange in the last 5 minutes over 10, times 100,
\* capped at 100, so several rows in one minute count separately
C8_PresenceAsComputed ==
    /\ market_presence # None =>
          /\ InPercentRange(market_presence.ret)
          /\ (\A i \in 1..Len(orderbook_snapshots) :
                 ~InPresenceWindow(orderbook_snapshots[i], market_presence.hours))
               => market_presence.ret = <<0, 1>>
          /\ market_presence.ret
               = Frac(Cardinality(QuotedMinutes(market_presence.hours)) * 100,
                      market_presence.hours * 60 + 1)
    /\ \A i \in 1..Len(mm_metrics) :
          /\ InPercentRange(mm_metrics[i].uptime_pct)
          /\ mm_metrics[i].uptime_pct
               = CappedPct(Cardinality(RowsOf(mm_metrics[i].exchange)), expected_data_points)

\* two two-sided snapshots in one minute of the window, one of them crossed, and a
\* stored uptime of 30% for three quotes of one minute
C8_Witness ==
    /\ market_presence # None /\ market_presence.hours = 1
    /\ Len(orderbook_snapshots) = 2
    /\ Cardinality(QuotedMinutes(1)) = 1
    /\ Cardinality(ValidMinutes(1)) = 1
    /\ \E i \in 1..2 : /\ orderbook_snapshots[i].bids # <<>>
                       /\ orderbook_snapshots[i].asks # <<>>
                       /\ orderbook_snapshots[i].bids[1][1] >= orderbook_snapshots[i].asks[1][1]
    /\ \A i \in 1..2 : orderbook_snapshots[i].bids # <<>>
    /\ market_presence.ret = <<100, 61>>
    /\ \E i \in 1..Len(mm_metrics) : mm_metrics[i].uptime_pct = <<30, 1>>

(***************************************************************************)
(* Claims about order walls (SpecBook)                                     *)
(***************************************************************************)
\* the volumes of the top-10 bid levels and the top-10 ask levels together
MeanSample ==
    [i \in 1..(Min(10, Len(ob.bids)) + Min(10, Len(ob.asks))) |->
        IF i <= Min(10, Len(ob.bids)) THEN ob.bids[i][2]
        ELSE ob.asks[i - Min(10, Len(ob.bids))][2]]

\* the top-20 levels whose volume v satisfies v > 5 * m, m = sum / count
WallIdx(levels) ==
    {i \in TopIdx(levels) : levels[i][2] * Len(MeanSample) > 5 * SumSeq(MeanSample)}

\* C11: with m the mean volume over the top-10 bid and top-10 ask levels together,
\* the detector emits exactly one order_wall event (side, price, volume,
\* volume_ratio = volume / m) for each top-20 level whose volume is strictly greater
\* than 5 * m and none for any other level
C11_OrderWallEvents ==
    single # None =>
        LET events == single.order_walls
        IN  /\ \A i \in WallIdx(ob.bids) :
                  Cardinality(EventsFor(events, "bid", ob.bids[i])) = 1
            /\ \A i \in WallIdx(ob.asks) :
                  Cardinality(EventsFor(events, "ask", ob.asks[i])) = 1
            /\ Len(events) = Cardinality(WallIdx(ob.bids)) + Cardinality(WallIdx(ob.asks))
            /\ \A e \in 1..Len(events) :
                  /\ \/ /\ events[e].side = "bid"
                        /\ \E i \in WallIdx(ob.bids) : e \in EventsFor(events, "bid", ob.bids[i])
                     \/ /\ events[e].side = "ask"
                        /\ \E i \in WallIdx(ob.asks) : e \in EventsFor(events, "ask", ob.asks[i])
                  /\ events[e].volume_ratio[2] # 0
                  /\ events[e].volume_ratio[1] * SumSeq(MeanSample)
                        = events[e].volume * Len(MeanSample) * events[e].volume_ratio[2]

\* the specification's example in a deep book: the top-10 levels of both sides have
\* volume 1, the bid at rank 20 has volume 6 and yields the only order_wall event,
\* with volume_ratio 6; the bid of volume 6 at rank 21 yields none
C11_Witness ==
    /\ single # None
    /\ SumSeq(MeanSample) = Len(MeanSample) /\ Len(MeanSample) = 20
    /\ Len(ob.bids) = TopLevels + 1
    /\ ob.bids[TopLevels][2] = 6 /\ ob.bids[TopLevels + 1][2] = 6
    /\ Len(single.order_walls) = 1
    /\ single.order_walls[1].side = "bid"
    /\ single.order_walls[1].price = ob.bids[TopLevels][1]
    /\ single.order_walls[1].volume_ratio = <<6, 1>>

\* a volume of exactly five times the mean is no wall
C11_BoundaryWitness ==
    /\ single # None
    /\ ob.bids # <<>> /\ ob.bids[1][2] * Len(MeanSample) = 5 * SumSeq(MeanSample)
    /\ ob.bids[1][2] > 0
    /\ single.order_walls = <<>>

(***************************************************************************)
(* Claims about rapid disappearances (Spec)                                *)
(***************************************************************************)
\* the snapshots the pattern detector works on, newest first
Snaps == FetchPatternSnapshots(orderbook_snapshots, now)

\* pair i is (S_t, S_{t-1}) = (Snaps[i], Snaps[i + 1])
Pairs == 1..(Len(Snaps) - 1)

Elapsed(i) == Snaps[i].timestamp - Snaps[i + 1].timestamp

\* the bid levels among the first depth of S_{t-1} with volume > 1 whose price is
\* at none of the first depth bid levels of S_t
Gone(i, depth) ==
    LET cur  == Snaps[i].bids
        prev == Snaps[i + 1].bids
    IN  {k \in 1..Min(depth, Len(prev)) :
            /\ prev[k][2] > 1
            /\ \A j \in 1..Min(depth, Len(cur)) : cur[j][1] # prev[k][1]}

Disappearances(depth) ==
    UNION { {<<i, k>> : k \in Gone(i, depth)} : i \in {p \in Pairs : Elapsed(p) > 0} }

DisappearanceOf(x) ==
    <<Snaps[x[1] + 1].bids[x[2]][1], Snaps[x[1] + 1].bids[x[2]][2], Elapsed(x[1])>>

\* one event (price, volume, duration_seconds) per disappearance and no other event
RapidRule(depth) ==
    LET events == pattern_analysis.rapid_changes
        want   == Disappearances(depth)
    IN  /\ Len(events) = Cardinality(want)
        /\ \A x \in want :
              Cardinality({e \in 1..Len(events) :
                              <<events[e].price, events[e].volume,
                                events[e].duration_seconds>> = DisappearanceOf(x)})
                = Cardinality({y \in want : DisappearanceOf(y) = DisappearanceOf(x)})

\* C12 as stated: for each consecutive pair with positive elapsed time exactly one
\* event for every bid price present in S_{t-1} (at any level of the snapshot) with
\* volume > 1 and absent from S_t, no other event, and nothing for a pair whose
\* elapsed time is zero or negative
C12_RapidDisappearance ==
    pattern_analysis # None => RapidRule(StoredLevels)

\* C12 amended: for each consecutive pair with positive elapsed time exactly one
\* event (price, volume, duration_seconds = elapsed time) for every bid price that
\* is among the top-20 bid levels of S_{t-1} with volume > 1 and not among the
\* top-20 bid levels of S_t, no other event, and nothing for a pair whose elapsed
\* time is zero or negative
C12_RapidDisappearanceTop20 ==
    pattern_analysis # None => RapidRule(TopLevels)

\* a pair 30 s apart in which the 21st bid of S_{t-1} is absent from S_t, the 20th
\* bid of S_{t-1} is the 21st of S_t, and events were emitted
C12_Witness ==
    /\ pattern_analysis # None
    /\ Len(Snaps) = 2 /\ Elapsed(1) = 30
    /\ Gone(1, TopLevels) # {}
    /\ Gone(1, StoredLevels) \ Gone(1, TopLevels) # {}
    /\ Gone(1, TopLevels) \ Gone(1, StoredLevels) # {}
    /\ Len(pattern_analysis.rapid_changes) = Cardinality(Gone(1, TopLevels))

\* a pair written in the same second contributes nothing
C12_TiedWitness ==
    /\ pattern_analysis # None
    /\ Len(Snaps) = 2 /\ Elapsed(1) = 0
    /\ Gone(1, TopLevels) # {}
    /\ pattern_analysis.rapid_changes = <<>>

(***************************************************************************)
(* Claims about the trade-flow analyzer (SpecFlow)                         *)
(***************************************************************************)
\* the trades the analyzer works on, newest first
Fetched == FetchHour(trades, now)

\* the trades of the window of 10 that starts at the i-th trade, by side
WindowSide(i, side) == {k \in i..(i + 9) : Fetched[k].side = side}

RECURSIVE PriceSum(_)
PriceSum(idx) ==
    IF idx = {} THEN 0
    ELSE LET k == CHOOSE x \in idx : TRUE IN Fetched[k].price + PriceSum(idx \ {k})

\* more than 3 buys and more than 3 sells
Balanced(i) ==
    Cardinality(WindowSide(i, "buy")) > 3 /\ Cardinality(WindowSide(i, "sell")) > 3

\* |mean buy price - mean sell price| / mean buy price < 0.001
PricesClose(i) ==
    LET nb == Cardinality(WindowSide(i, "buy"))
        ns == Cardinality(WindowSide(i, "sell"))
        sb == PriceSum(WindowSide(i, "buy"))
        ss == PriceSum(WindowSide(i, "sell"))
    IN  Abs(sb * ns - ss * nb) * 1000 < sb * ns

\* one event for every window starting at one of the first count trades that is
\* balanced with close prices, and no other event
PingPongRule(count) ==
    LET events == trade_flow.ping_pong_trades
        hits == {i \in 1..count : Balanced(i) /\ PricesClose(i)}
    IN  /\ Len(events) = Cardinality(hits)
        /\ \A i \in hits :
              Cardinality({e \in 1..Len(events) :
                  /\ events[e].timestamp = Fetched[i].timestamp
                  /\ events[e].trade_count = 10
                  /\ events[e].avg_buy_price
                       = Frac(PriceSum(WindowSide(i, "buy")),
                              Cardinality(WindowSide(i, "buy")))
                  /\ events[e].avg_sell_price
                       = Frac(PriceSum(WindowSide(i, "sell")),
                              Cardinality(WindowSide(i, "sell")))}) = 1

\* C13: every window of 10 consecutive trades with more than 3 buys and more than 3
\* sells yields one ping_pong event (avg_buy_price, avg_sell_price, trade_count,
\* window start) if |mean buy - mean sell| / mean buy < 0.001 and none otherwise;
\* 10 trades with 5 buys at 65000 and 5 sells at 65010 yield one event, with sells
\* at 66000 none
C13_PingPongEvents ==
    trade_flow # None => PingPongRule(Len(Fetched) - 9)

\* a quantity in units of 0.00001 brought to the nearest 0.0001 (no quantity of
\* the histories lies halfway)
Quantized(quantity) == ((quantity + 5) \div 10) * 10

QuantizedSizes == {Quantized(Fetched[i].quantity) : i \in 1..Len(Fetched)}

Occurrences(size) ==
    Cardinality({i \in 1..Len(Fetched) : Quantized(Fetched[i].quantity) = size})

RECURSIVE FrequencySum(_)
FrequencySum(events) ==
    IF events = <<>> THEN 0 ELSE Head(events).frequency + FrequencySum(Tail(events))

\* C14: after quantizing each trade size to 4 decimal places the analyzer emits
\* exactly one size_cluster event (size, frequency, percentage = frequency / total
\* trades * 100) for each quantized size that occurs more than 5 times and none for
\* a size occurring 5 times or fewer; the frequencies sum to at most the number of
\* trades
C14_SizeClusters ==
    trade_flow # None =>
        LET events == trade_flow.size_patterns
            often  == {z \in QuantizedSizes : Occurrences(z) > 5}
        IN  /\ Len(events) = Cardinality(often)
            /\ \A z \in often :
                  Cardinality({e \in 1..Len(events) :
                      /\ events[e].size = z
                      /\ events[e].frequency = Occurrences(z)
                      /\ events[e].percentage[1] * Len(Fetched)
                           = Occurrences(z) * 100 * events[e].percentage[2]}) = 1
            /\ FrequencySum(events) <= Len(Fetched)

\* twelve trades of sizes 1.5 and 1.50006 in turn: two clusters, 1.5 and 1.5001, of
\* frequency 6 and 50 percent each
C14_Witness ==
    /\ trade_flow # None
    /\ Len(Fetched) = 12
    /\ \E i \in 1..12 : Fetched[i].quantity = 150006
    /\ Len(trade_flow.size_patterns) = 2
    /\ {trade_flow.size_patterns[e].size : e \in 1..2} = {150000, 150010}
    /\ \A e \in 1..2 : /\ trade_flow.size_patterns[e].frequency = 6
                       /\ trade_flow.size_patterns[e].percentage = <<50, 1>>

\* a size met exactly five times is no cluster
C14_ThresholdWitness ==
    /\ trade_flow # None
    /\ Occurrences(150000) = 5
    /\ trade_flow.size_patterns = <<>>

(***************************************************************************)
(* Claims about insufficient data (Spec)                                   *)
(***************************************************************************)
\* C15: a window with fewer than 2 snapshots or with 0 trades is no error: the
\* pattern detector and the trade-flow analyzer return empty result sets, the
\* score contribution of the missing data is 0, and no exception reaches the caller
C15_InsufficientDataIsValid ==
    /\ (Len(Snaps) < 2 /\ pattern_analysis # None) =>
          /\ pattern_analysis.round_number_orders = <<>>
          /\ pattern_analysis.symmetric_orders = <<>>
          /\ pattern_analysis.order_walls = <<>>
          /\ pattern_analysis.rapid_changes = <<>>
          /\ pattern_analysis.mm_probability_score = 0
    /\ (Len(Fetched) = 0 /\ trade_flow # None) =>
          /\ trade_flow.ping_pong_trades = <<>>
          /\ trade_flow.size_patterns = <<>>
    /\ (Len(FetchHour(orderbook_snapshots, now)) < 2 \/ Len(Fetched) = 0) =>
          /\ pc # "failed"
          /\ response # None => response.status_code = 200

(***************************************************************************)
(* Claims about malformed records (SpecRecords)                            *)
(***************************************************************************)
HasMalformed(r) ==
    \/ \E i \in 1..Len(r.bids) : r.bids[i][1] = Malformed \/ r.bids[i][2] = Malformed
    \/ \E i \in 1..Len(r.asks) : r.asks[i][1] = Malformed \/ r.asks[i][2] = Malformed

MalformedRows == {i \in 1..Len(orderbook_snapshots) : HasMalformed(orderbook_snapshots[i])}

\* C16: a single record with a malformed price or size is skipped: with one such
\* snapshot and one well-formed snapshot in the window the evaluation does not abort
\* with an error, and once it has ended it has returned a report
C16_MalformedRecordSkipped ==
    (Len(orderbook_snapshots) = 2 /\ Cardinality(MalformedRows) = 1) =>
        /\ pc # "failed"
        /\ response # None => response.status_code = 200

(***************************************************************************)
(* Claims about the outcome of a request (Spec)                            *)
(***************************************************************************)
\* C18: an evaluation never exposes a partial result: the caller receives nothing
\* while the evaluation runs, and in the end either one report holding all three
\* parts (pattern analysis, trade flow, liquidity profile) or an error and no report
C18_NoPartialReport ==
    /\ pc \notin {"returned", "failed"} => response = None
    /\ pc = "returned" =>
          /\ response.status_code = 200
          /\ response.analysis.pattern_analysis # None
          /\ response.analysis.trade_flow # None
          /\ response.analysis.liquidity_profile # None
          /\ response.analysis.pattern_analysis = pattern_analysis
          /\ response.analysis.trade_flow = trade_flow
          /\ response.analysis.liquidity_profile = liquidity_profile
    /\ pc = "failed" =>
          /\ response.status_code = 500
          /\ DOMAIN response = {"status_code", "detail"}

\* a request that returned a report with events in it
C18_Witness ==
    /\ pc = "returned"
    /\ response.status_code = 200
    /\ Len(response.analysis.pattern_analysis.round_number_orders) > 0
    /\ Len(response.analysis.trade_flow.ping_pong_trades) > 0
    /\ response.analysis.liquidity_profile.liquidity_score > 0

\* a request that failed after two of the three parts had been computed
C18_FailedWitness ==
    /\ pc = "failed"
    /\ pattern_analysis # None /\ trade_flow # None
    /\ response.status_code = 500

(***************************************************************************)
(* Claims about requests (SpecCalls)                                       *)
(***************************************************************************)
Recognized(frame) == frame.symbol \in Symbols /\ frame.exchange \in Exchanges

Ended(frame) == frame.pc \in {"returned", "failed"}

\* C17: a call with an unrecognized venue or instrument identifier fails with an
\* error before any detector computation runs, and no call with recognized
\* identifiers surfaces an error to the caller
C17_InputErrorOnly ==
    \A c \in 1..Len(calls) :
        /\ ~Recognized(calls[c]) =>
              /\ calls[c].pc \in {"idle", "failed"}
              /\ calls[c].pattern_analysis = None
              /\ calls[c].trade_flow = None
              /\ calls[c].liquidity_profile = None
        /\ Recognized(calls[c]) => calls[c].pc # "failed"

\* the rows two frames are given
SameWindow(f, g) == WindowOf(f.symbol, f.exchange) = WindowOf(g.symbol, g.exchange)

\* C19: evaluation is stateless: two evaluations given the same snapshot sequence
\* and the same trade sequence return the same event lists and the same scores,
\* whatever evaluations ran before them
C19_Stateless ==
    \A c, d \in 1..Len(calls) :
        SameWindow(calls[c], calls[d]) =>
            /\ (calls[c].pattern_analysis # None /\ calls[d].pattern_analysis # None)
                  => calls[c].pattern_analysis = calls[d].pattern_analysis
            /\ (calls[c].trade_flow # None /\ calls[d].trade_flow # None)
                  => calls[c].trade_flow = calls[d].trade_flow
            /\ (Ended(calls[c]) /\ Ended(calls[d]))
                  => calls[c].response = calls[d].response

\* two requests for the same pair, one after the other, returned the same report
\* with events in it
C19_Witness ==
    /\ Len(calls) = 2
    /\ calls[1].exchange = calls[2].exchange
    /\ calls[1].pc = "returned" /\ calls[2].pc = "returned"
    /\ calls[1].response = calls[2].response
    /\ Len(calls[2].pattern_analysis.round_number_orders) > 0
    /\ Len(calls[2].trade_flow.ping_pong_trades) > 0

\* what a request for the pair gets when it runs alone on the stored window
AloneReport(symbol, exchange) ==
    LET w  == WindowOf(symbol, exchange)
        pa == analyze_order_patterns(FetchPatternSnapshots(w.snapshots, now))
        tf == analyze_trade_patterns(FetchHour(w.trades, now))
        lp == calculate_liquidity_metrics(FetchHour(w.snapshots, now))
    IN  IF lp.status = "raised"
        THEN [status_code |-> 500, detail |-> lp.exception]
        ELSE [status_code |-> 200,
              analysis |-> [pattern_analysis |-> pa, trade_flow |-> tf,
                            liquidity_profile |-> lp],
              summary |-> [mm_probability |-> pa.mm_probability_score,
                           liquidity_score |-> lp.liquidity_score]]

\* C20: evaluations of different (venue, instrument) pairs running concurrently, in
\* any interleaving, share no mutable state: the report of each pair equals the
\* report it would get when run alone on the same window
C20_IndependentPairs ==
    \A c \in 1..Len(calls) :
        Ended(calls[c]) => calls[c].response = AloneReport(calls[c].symbol, calls[c].exchange)

\* the request that arrived second has returned its report while the first one, for
\* another pair with other rows, is suspended between two awaits
C20_Witness ==
    /\ Len(calls) = 2
    /\ calls[1].exchange # calls[2].exchange
    /\ ~SameWindow(calls[1], calls[2])
    /\ calls[1].pc = "patterns_done"
    /\ calls[2].pc = "returned"
    /\ Len(calls[1].pattern_analysis.round_number_orders) > 0
    /\ calls[2].response = AloneReport(calls[2].symbol, calls[2].exchange)


(***************************************************************************)
(* main.py: collect_mm_performance_metrics, the scheduled batch over the    *)
(* tracked (symbol, exchange) pairs                                         *)
(***************************************************************************)
\* no request GET /api/mm/detection and no per-book call is under way
DetectorIdle ==
    /\ orderbook_snapshots = <<>> /\ trades = <<>>
    /\ pc = "idle"
    /\ pattern_analysis = None /\ trade_flow = None /\ liquidity_profile = None
    /\ profiler_locals = None /\ response = None /\ market_presence = None
    /\ ob = None /\ liquidity = None /\ depth_levels = None /\ single = None
    /\ windows = <<>> /\ calls = <<>>

\* exchange_list = ['binance_perps', 'binance_spot', 'bitget', 'gate', 'kucoin']
exchange_list == <<"binance_perps", "binance_spot", "bitget", "gate", "kucoin">>

\* the order of "for symbol in symbols: for exchange in exchange_list", with the
\* default TRACK_SYMBOL
PerformancePairs == [i \in 1..Len(exchange_list) |-> <<"BTCUSDT", exchange_list[i]>>]

\* the depth_pcts [2, 4, 8] of the batch, in tenths of a percent
PerformanceDepths == <<20, 40, 80>>

\* what "SELECT bids, asks .. ORDER BY timestamp DESC LIMIT 1" can return for a
\* pair: no row, a well-formed book, or a book whose best bid price is no number
LatestBooks ==
    { None, TightBook(30), WideBook(30),
      [timestamp |-> StartTime - 30,
       bids |-> <<<<Malformed, 6>>>>, asks |-> <<<<10005, 6>>>>] }

\* float(bids[0][0]) and float(asks[0][0]) of the mid price raise ValueError
PairRaises(orderbook_result) ==
    /\ orderbook_result # None
    /\ orderbook_result.bids # <<>> /\ orderbook_result.asks # <<>>
    /\ \/ orderbook_result.bids[1][1] = Malformed
       \/ orderbook_result.asks[1][1] = Malformed

\* the row of INSERT INTO mm_performance: the liquidity columns and the imbalance
PerformanceRow(symbol, exchange, orderbook_result) ==
    LET two_sided == /\ orderbook_result # None
                     /\ orderbook_result.bids # <<>> /\ orderbook_result.asks # <<>>
        liquidity_data ==
            IF two_sided
            THEN calculate_liquidity_depth(
                     orderbook_result,
                     MidPrice(orderbook_result.bids, orderbook_result.asks),
                     PerformanceDepths)
            ELSE [k \in {2, 4, 8} |-> 0]
    IN  [exchange |-> exchange, symbol |-> symbol,
         liquidity_2pct |-> liquidity_data[2],
         liquidity_4pct |-> liquidity_data[4],
         liquidity_8pct |-> liquidity_data[8],
         bid_ask_imbalance |->
             IF orderbook_result # None
                /\ TopVolume(orderbook_result.bids) + TopVolume(orderbook_result.asks) > 0
             THEN Imbalance(orderbook_result) ELSE <<0, 1>>]

(***************************************************************************)
(* SpecPerformance: one run of the batch.  Every await of a pair either     *)
(* returns, raises, or never returns; the code sets no timeout on any.      *)
(***************************************************************************)
InitPerformance ==
    /\ now = StartTime
    /\ mm_metrics = <<>> /\ market_data = <<>>
    /\ DetectorIdle
    /\ depth_task = None /\ metrics_task = <<>>
    /\ mm_performance = <<>> /\ perf_task = None
    /\ waiter = None
    /\ last_processed_timestamp = 0 /\ swap_transactions = {} /\ tracker_calls = <<>>

\* the scheduler starts the job
CollectMmPerformanceMetrics ==
    /\ perf_task = None
    /\ perf_task' = [i |-> 1, pc |-> "running", errors |-> <<>>]
    /\ UNCHANGED <<bookVars, windowVars, requestVars, callVars, depth_task, metrics_task,
                   mm_performance, trackerVars>>

\* one iteration of the inner loop, lines 1075-1184: the body of the try, or the
\* except clause that logs the error; after the last pair the job logs
\* "MM performance metrics collection completed"
EvaluatePair(orderbook_result, awaited) ==
    /\ perf_task # None /\ perf_task.pc = "running"
    /\ LET pair == PerformancePairs[perf_task.i]
           next_pc == IF perf_task.i = Len(PerformancePairs) THEN "completed"
                      ELSE "running"
       IN  CASE awaited = "never_returns" ->
                  /\ perf_task' = [perf_task EXCEPT !.pc = "blocked"]
                  /\ UNCHANGED mm_performance
             [] awaited = "raises" \/ (awaited = "returns" /\ PairRaises(orderbook_result)) ->
                  /\ perf_task' = [perf_task EXCEPT !.i = @ + 1, !.pc = next_pc,
                                                    !.errors = Append(@, pair[2])]
                  /\ UNCHANGED mm_performance
             [] OTHER ->
                  /\ mm_performance' =
                         Append(mm_performance,
                                PerformanceRow(pair[1], pair[2], orderbook_result))
                  /\ perf_task' = [perf_task EXCEPT !.i = @ + 1, !.pc = next_pc]
    /\ UNCHANGED <<bookVars, windowVars, requestVars, callVars, depth_task, metrics_task,
                   trackerVars>>

NextPerformance ==
    \/ CollectMmPerformanceMetrics
    \/ \E orderbook_result \in LatestBooks, awaited \in {"returns", "raises", "never_returns"} :
          EvaluatePair(orderbook_result, awaited)

SpecPerformance == InitPerformance /\ [][NextPerformance]_vars

(***************************************************************************)
(* Claims about the batch (SpecPerformance)                                 *)
(***************************************************************************)
\* the pairs whose iteration is over
Evaluated == IF perf_task = None THEN {} ELSE 1..(perf_task.i - 1)

ReportedPair(k) ==
    \E r \in 1..Len(mm_performance) :
        /\ mm_performance[r].symbol = PerformancePairs[k][1]
        /\ mm_performance[r].exchange = PerformancePairs[k][2]

\* C21: a pair whose evaluation fails or exceeds its timeout yields a degraded
\* report with the diagnostic flag set, so every pair whose iteration is over has a
\* report, and the remaining pairs are still evaluated: a batch whose pair has
\* failed is not held up
C21_DegradedReportPerPair ==
    /\ \A k \in Evaluated : ReportedPair(k)
    /\ perf_task # None => perf_task.pc # "blocked"

\* what the code does on a raised error: the pair leaves a log line and nothing
\* else, and the loop goes on to the next pair
C21_FailedPairIsLogged ==
    perf_task # None =>
        /\ \A k \in Evaluated :
              ReportedPair(k) <=> ~ \E e \in 1..Len(perf_task.errors) :
                                       perf_task.errors[e] = PerformancePairs[k][2]
        /\ Len(mm_performance) + Len(perf_task.errors) = perf_task.i - 1

C21_Witness ==
    /\ perf_task # None /\ perf_task.pc = "completed"
    /\ perf_task.errors = <<"bitget">>
    /\ Len(mm_performance) = 4


(***************************************************************************)
(* Claims about the pattern report (Spec), continued                        *)
(***************************************************************************)
\* C22: in every returned pattern analysis persistent_levels and
\* spoofing_candidates are empty, so the 15-point persistent-levels term never
\* contributes: the score is the sum of the other four terms and is at most 85
C22_PersistentTermNeverCounts ==
    pattern_analysis # None =>
        /\ pattern_analysis.persistent_levels = <<>>
        /\ pattern_analysis.spoofing_candidates = <<>>
        /\ pattern_analysis.mm_probability_score
              = 20 * Indicator(Len(pattern_analysis.round_number_orders) > 5)
              + 30 * Indicator(Len(pattern_analysis.symmetric_orders) > 3)
              + 15 * Indicator(Len(pattern_analysis.order_walls) > 0)
              + 20 * Indicator(Len(pattern_analysis.rapid_changes) > 10)
        /\ pattern_analysis.mm_probability_score <= 85

\* an analysis with more than 5 round-number events (enough for the persistent
\* term, were the list filled from them) that reaches the maximum of 85
C22_Witness ==
    /\ pattern_analysis # None
    /\ Len(pattern_analysis.round_number_orders) > 5
    /\ Len(pattern_analysis.order_walls) > 0
    /\ pattern_analysis.mm_probability_score = 85


\* the number of events the round-number detector and the symmetric detector
\* yield on one snapshot
RoundCount(row) == Cardinality(RoundIdx(row.bids)) + Cardinality(RoundIdx(row.asks))

SymmetricCount(row) == Cardinality(TopVolumes(row.bids) \cap TopVolumes(row.asks))

RECURSIVE RoundTotal(_)
RoundTotal(k) == IF k <= 0 THEN 0 ELSE RoundCount(Snaps[k]) + RoundTotal(k - 1)

RECURSIVE SymmetricTotal(_)
SymmetricTotal(k) == IF k <= 0 THEN 0 ELSE SymmetricCount(Snaps[k]) + SymmetricTotal(k - 1)

SingleEvents ==
    pattern_analysis.round_number_orders \o pattern_analysis.symmetric_orders
        \o pattern_analysis.order_walls

\* C23: over a time-descending sequence of n snapshots the single-snapshot
\* detectors run exactly once on each of the n - 1 newest snapshots and never on
\* the oldest, whatever the elapsed time of the pair; with n = 1 (or 0) there is
\* no single-snapshot event
C23_SingleDetectorsOnNewest ==
    pattern_analysis # None =>
        LET n == Len(Snaps)
        IN  /\ Len(pattern_analysis.round_number_orders) = RoundTotal(n - 1)
            /\ Len(pattern_analysis.symmetric_orders) = SymmetricTotal(n - 1)
            /\ \A e \in 1..Len(SingleEvents) :
                  \E i \in 1..(n - 1) : SingleEvents[e].timestamp = Snaps[i].timestamp
            /\ n <= 1 => SingleEvents = <<>>

\* two snapshots written in the same second, each with round-number levels: the
\* events of the newer one are reported, those of the older one are not
C23_Witness ==
    /\ pattern_analysis # None
    /\ Len(Snaps) = 2 /\ Elapsed(1) = 0
    /\ RoundCount(Snaps[1]) > 0 /\ RoundCount(Snaps[2]) > 0
    /\ SymmetricCount(Snaps[2]) > 0
    /\ Len(pattern_analysis.round_number_orders) = RoundCount(Snaps[1])

\* a single snapshot with round-number levels yields no event
C23_SingleSnapshotWitness ==
    /\ pattern_analysis # None
    /\ Len(Snaps) = 1 /\ RoundCount(Snaps[1]) > 0
    /\ pattern_analysis.round_number_orders = <<>>


(***************************************************************************)
(* Claims about the per-book functions (SpecBook), continued                *)
(***************************************************************************)
\* level i is the deepest of the top-20 levels of the side that carries the volume
DeepestWith(levels, i, volume) ==
    /\ i \in TopIdx(levels)
    /\ levels[i][2] = volume
    /\ \A k \in TopIdx(levels) : levels[k][2] = volume => k <= i

\* C24: when several top-20 levels of one side carry the same volume only one is
\* used, the deepest (the last in top-20 order), whose price is the reported one;
\* there is at most one symmetric event per distinct bid volume and at most 20
\* symmetric events in total
C24_SymmetricDeepestLevel ==
    single # None =>
        LET events == single.symmetric_orders
        IN  /\ \A e \in 1..Len(events) :
                  /\ \E i \in TopIdx(ob.bids) :
                        /\ DeepestWith(ob.bids, i, events[e].volume)
                        /\ events[e].bid_price = ob.bids[i][1]
                  /\ \E i \in TopIdx(ob.asks) :
                        /\ DeepestWith(ob.asks, i, events[e].volume)
                        /\ events[e].ask_price = ob.asks[i][1]
            /\ \A e1, e2 \in 1..Len(events) :
                  events[e1].volume = events[e2].volume => e1 = e2
            /\ Len(events) <= Cardinality(TopVolumes(ob.bids))
            /\ Len(events) <= 20

\* a book in which one volume sits on several top-20 levels of each side: its
\* single event reports the prices of the deepest of them, not of the best
C24_Witness ==
    /\ single # None
    /\ \E e \in 1..Len(single.symmetric_orders) :
          LET v == single.symmetric_orders[e].volume
          IN  /\ Cardinality({i \in TopIdx(ob.bids) : ob.bids[i][2] = v}) > 1
              /\ Cardinality({i \in TopIdx(ob.asks) : ob.asks[i][2] = v}) > 1
              /\ \E i \in TopIdx(ob.bids) :
                    /\ ob.bids[i][2] = v
                    /\ ob.bids[i][1] # single.symmetric_orders[e].bid_price
              /\ Len(ob.bids) > TopLevels /\ ob.bids[TopLevels + 1][2] = v


(***************************************************************************)
(* Claims about the rapid-change detector (Spec), continued                 *)
(***************************************************************************)
\* the keys of pair i that are among the top-20 bids of the previous snapshot with
\* volume > 1 and not among the top-20 bids of the current one, for every pair
KeysGone == UNION { {<<i, k>> : k \in Gone(i, TopLevels)} : i \in Pairs }

\* the same for the pairs with positive elapsed time only
KeysGoneElapsed == {x \in KeysGone : Elapsed(x[1]) > 0}

\* an ask price of the previous snapshot of some pair that is not an ask price of
\* the current one, with volume > 1
AskGone ==
    \E i \in Pairs : \E k \in TopIdx(Snaps[i + 1].asks) :
        /\ Snaps[i + 1].asks[k][2] > 1
        /\ \A j \in TopIdx(Snaps[i].asks) : Snaps[i].asks[j][1] # Snaps[i + 1].asks[k][1]

\* one bid event per key of the set and no other event
EmittedFor(want) ==
    LET events == pattern_analysis.rapid_changes
    IN  /\ Len(events) = Cardinality(want)
        /\ \A e \in 1..Len(events) :
              /\ events[e].side = "bid" /\ events[e].type = "disappeared_order"
              /\ \E x \in want :
                    /\ events[e].price = Snaps[x[1] + 1].bids[x[2]][1]
                    /\ events[e].volume = Snaps[x[1] + 1].bids[x[2]][2]
        /\ \A x \in want :
              \E e \in 1..Len(events) :
                  /\ events[e].price = Snaps[x[1] + 1].bids[x[2]][1]
                  /\ events[e].volume = Snaps[x[1] + 1].bids[x[2]][2]

\* C25 as stated: an event is emitted iff the price key is among the previous
\* snapshot's top-20 bids with volume > 1 and is not among the current snapshot's
\* top-20 bid keys (whatever the elapsed time of the pair); ask levels never
\* produce events
C25_TopTwentyBidKeys ==
    pattern_analysis # None => EmittedFor(KeysGone)

\* C25 amended: the same for the pairs with positive elapsed time, and no event for
\* any other pair
C25_TopTwentyBidKeysElapsed ==
    pattern_analysis # None => EmittedFor(KeysGoneElapsed)

\* a pair 30 s apart in which a bid of the previous top 20 rests at rank 21 of the
\* current book and is reported, while ask levels that are gone are not
C25_Witness ==
    /\ pattern_analysis # None
    /\ Len(Snaps) = 2 /\ Elapsed(1) = 30
    /\ \E k \in Gone(1, TopLevels) :
          /\ Len(Snaps[1].bids) > TopLevels
          /\ \E j \in (TopLevels + 1)..Len(Snaps[1].bids) :
                Snaps[1].bids[j][1] = Snaps[2].bids[k][1]
          /\ \E e \in 1..Len(pattern_analysis.rapid_changes) :
                pattern_analysis.rapid_changes[e].price = Snaps[2].bids[k][1]
    /\ AskGone


\* every bid price is below the mid price and every ask price above it
AroundMid ==
    /\ ob # None /\ ob.bids # <<>> /\ ob.asks # <<>>
    /\ Len(ob.bids) <= StoredLevels /\ Len(ob.asks) <= StoredLevels
    /\ \A i \in 1..Len(ob.bids) : 2 * ob.bids[i][1] < BestBid + BestAsk
    /\ \A i \in 1..Len(ob.asks) : 2 * ob.asks[i][1] > BestBid + BestAsk

\* the volumes of the band rule of calculate_liquidity_depth agree with the
\* volumes calculate_depth_levels has written, for every band
RulesAgree ==
    LET mid_price == MidPrice(ob.bids, ob.asks)
    IN  \A b \in 1..Len(DepthBands) :
            /\ depth_levels[DepthBands[b][1]].bid_volume
                  = BidLiquidity(ob.bids, mid_price, DepthBands[b][2])
            /\ depth_levels[DepthBands[b][1]].ask_volume
                  = AskLiquidity(ob.asks, mid_price, DepthBands[b][2])

\* a level whose distance from the mid price is exactly a band percentage
OnBoundary(levels) ==
    \E i \in 1..Len(levels) : \E b \in 1..Len(DepthBands) :
        Abs(2 * levels[i][1] - (BestBid + BestAsk)) * 1000
            = DepthBands[b][2] * (BestBid + BestAsk)

C26_BoundaryWitness ==
    /\ AroundMid /\ depth_levels # None
    /\ OnBoundary(ob.bids)
    /\ depth_levels["1%"].bid_volume
          < BidLiquidity(ob.bids, MidPrice(ob.bids, ob.asks), 10)


(***************************************************************************)
(* main.py: schedule_data_collection.  The jobs collect_orderbook_data and  *)
(* calculate_mm_metrics run as coroutines of one event loop and interleave  *)
(* at their awaits; both write the table mm_metrics.                        *)
(***************************************************************************)
\* the order books an exchange connector returns: two-sided, or with no asks
JobBooks ==
    { [bids |-> <<<<10000, 6>>, <<9990, 6>>>>, asks |-> <<<<10005, 6>>, <<10010, 6>>>>],
      [bids |-> <<<<10000, 2>>, <<9800, 4>>>>, asks |-> <<<<10100, 1>>>>],
      [bids |-> <<<<10000, 2>>>>, asks |-> <<>>] }

\* quotes of the last minute: of one exchange, or of both
JobMarketTables(t_now) ==
    { MarketRows("binance_spot", 3, 2, t_now),
      MarketRows("binance_spot", 3, 2, t_now) \o MarketRows("gate", 2, 20, t_now) }

\* collect_single_orderbook holds no depth waiting for its UPDATE
DepthIdle(e) == IF depth_task[e] = None THEN TRUE ELSE depth_task[e].pc = "done"

(***************************************************************************)
(* SpecJobs: at most MaxCollects order books are collected and the metrics  *)
(* job starts while mm_metrics holds fewer than MaxMetricRows rows.         *)
(***************************************************************************)
MaxCollects == 2

InitJobs ==
    /\ now = StartTime
    /\ market_data \in JobMarketTables(now)
    /\ mm_metrics = <<>>
    /\ DetectorIdle
    /\ depth_task = [e \in Exchanges |-> None]
    /\ metrics_task = <<>>
    /\ mm_performance = <<>> /\ perf_task = None
    /\ waiter = None
    /\ last_processed_timestamp = 0 /\ swap_transactions = {} /\ tracker_calls = <<>>

\* collect_single_orderbook up to the await of the UPDATE inside
\* calculate_depth_levels: the snapshot is stored with its first 100 levels and
\* the band depths are computed; a book with an empty side is passed over
CollectSingleOrderbook(exchange_name, symbol, orderbook) ==
    /\ DepthIdle(exchange_name)
    /\ Len(orderbook_snapshots) < MaxCollects
    /\ IF orderbook.bids = <<>> \/ orderbook.asks = <<>>
       THEN UNCHANGED <<orderbook_snapshots, depth_task>>
       ELSE /\ orderbook_snapshots' =
                   <<[exchange |-> exchange_name, timestamp |-> now,
                      bids |-> Take(orderbook.bids, StoredLevels),
                      asks |-> Take(orderbook.asks, StoredLevels)]>> \o orderbook_snapshots
            /\ \E rounding \in Roundings :
                   depth_task' =
                       [depth_task EXCEPT ![exchange_name] =
                           [pc |-> "update", symbol |-> symbol,
                            depth_levels |-> DepthLevelsOf(orderbook.bids, orderbook.asks,
                                                           rounding)]]
    /\ UNCHANGED <<bookVars, now, trades, market_data, requestVars, callVars,
                   metrics_task, mm_performance, perf_task, trackerVars>>

\* the UPDATE of calculate_depth_levels; its command tag counts the rows it changed
StoreDepthMetrics(exchange_name) ==
    /\ depth_task[exchange_name] # None /\ depth_task[exchange_name].pc = "update"
    /\ mm_metrics' = UpdateDepth(mm_metrics, exchange_name, depth_task[exchange_name].symbol,
                                 depth_task[exchange_name].depth_levels)
    /\ depth_task' =
           [depth_task EXCEPT ![exchange_name] =
               [pc |-> "done", symbol |-> @.symbol, depth_levels |-> @.depth_levels,
                status |-> Cardinality({i \in 1..Len(mm_metrics) :
                                 IsLatestMetric(mm_metrics, i, exchange_name, @.symbol)})]]
    /\ UNCHANGED <<ob, liquidity, depth_levels, single, windowVars, requestVars, callVars,
                   metrics_task, mm_performance, perf_task, trackerVars>>

\* calculate_mm_metrics up to its first INSERT: the quotes are fetched and grouped
StartMmMetrics(symbol) ==
    /\ metrics_task = <<>>
    /\ Len(mm_metrics) < MaxMetricRows
    /\ metrics_task' = calculate_mm_metrics(market_data, symbol, now)
    /\ UNCHANGED <<bookVars, windowVars, requestVars, callVars,
                   depth_task, mm_performance, perf_task, trackerVars>>

\* one INSERT INTO mm_metrics of the loop over the exchanges, with
\* datetime.utcnow() as its timestamp; the clock has moved on by the next one
InsertMmMetrics ==
    /\ metrics_task # <<>>
    /\ mm_metrics' = Append(mm_metrics, [Head(metrics_task) EXCEPT !.timestamp = now])
    /\ metrics_task' = Tail(metrics_task)
    /\ now' = now + 1
    /\ UNCHANGED <<ob, liquidity, depth_levels, single, orderbook_snapshots, trades,
                   market_data, requestVars, callVars,
                   depth_task, mm_performance, perf_task, trackerVars>>

NextJobs ==
    \/ \E e \in Exchanges, symbol \in Symbols, orderbook \in JobBooks :
          CollectSingleOrderbook(e, symbol, orderbook)
    \/ \E e \in Exchanges : StoreDepthMetrics(e)
    \/ \E symbol \in Symbols : StartMmMetrics(symbol)
    \/ InsertMmMetrics

SpecJobs == InitJobs /\ [][NextJobs]_vars


(***************************************************************************)
(* Claims about the interleaved jobs (SpecJobs)                             *)
(***************************************************************************)
\* the rows of a pair
RowsOfPair(table, exchange, symbol) ==
    {i \in 1..Len(table) : table[i].exchange = exchange /\ table[i].symbol = symbol}

\* the rows of a pair that carry the greatest timestamp of the pair
LatestRows(table, exchange, symbol) ==
    {i \in RowsOfPair(table, exchange, symbol) :
        \A j \in RowsOfPair(table, exchange, symbol) : table[j].timestamp <= table[i].timestamp}

\* the step is the UPDATE of the depth task of the exchange
Updates(e) ==
    /\ depth_task[e] # None /\ depth_task[e].pc = "update"
    /\ depth_task'[e].pc = "done"

\* the quotes of an exchange the metrics job averages
QuotesOf(exchange) ==
    SelectSeq(market_data,
              LAMBDA r : r.exchange = exchange /\ r.timestamp > now - MetricsWindowSeconds)

\* C27: under any interleaving of collect_orderbook_data and calculate_mm_metrics,
\* the 1% and 2% band depths of calculate_depth_levels are written to the
\* mm_metrics row of the (exchange, symbol) with the greatest timestamp and to no
\* other row; when the pair has no row the UPDATE changes nothing and the depth is
\* dropped; and a row that calculate_mm_metrics inserts carries the averaged
\* top-of-book volumes in bid_depth_1pct and ask_depth_1pct, not a band depth, and
\* no 2% depth
C27_DepthToLatestRow ==
    [][ /\ \A e \in Exchanges :
              Updates(e) =>
                  LET levels == depth_task[e].depth_levels
                      latest == LatestRows(mm_metrics, e, depth_task[e].symbol)
                  IN  /\ Len(mm_metrics') = Len(mm_metrics)
                      /\ Cardinality(latest) <= 1
                      /\ \A i \in 1..Len(mm_metrics) :
                            IF i \in latest
                            THEN mm_metrics'[i] =
                                    [mm_metrics[i] EXCEPT
                                        !.bid_depth_1pct = <<levels["1%"].bid_volume, 1>>,
                                        !.ask_depth_1pct = <<levels["1%"].ask_volume, 1>>,
                                        !.bid_depth_2pct = <<levels["2%"].bid_volume, 1>>,
                                        !.ask_depth_2pct = <<levels["2%"].ask_volume, 1>>]
                            ELSE mm_metrics'[i] = mm_metrics[i]
                      /\ RowsOfPair(mm_metrics, e, depth_task[e].symbol) = {}
                            => mm_metrics' = mm_metrics
        /\ Len(mm_metrics') > Len(mm_metrics) =>
              LET row == mm_metrics'[Len(mm_metrics')]
                  quotes == QuotesOf(row.exchange)
              IN  /\ Len(mm_metrics') = Len(mm_metrics) + 1
                  /\ \A i \in 1..Len(mm_metrics) : mm_metrics'[i] = mm_metrics[i]
                  /\ quotes # <<>>
                  /\ row.bid_depth_1pct[1] * Len(quotes)
                        = SumSeq([i \in 1..Len(quotes) |-> quotes[i].bid_volume])
                            * row.bid_depth_1pct[2]
                  /\ row.ask_depth_1pct[1] * Len(quotes)
                        = SumSeq([i \in 1..Len(quotes) |-> quotes[i].ask_volume])
                            * row.ask_depth_1pct[2]
                  /\ row.bid_depth_2pct = NULL /\ row.ask_depth_2pct = NULL
      ]_vars

\* two rows of one pair: the UPDATE has written the band depths to the newer one
\* and has left the older one as it was inserted
C27_Witness ==
    \E e \in Exchanges :
        /\ depth_task[e] # None /\ depth_task[e].pc = "done" /\ depth_task[e].status = 1
        /\ Cardinality(RowsOfPair(mm_metrics, e, "BTCUSDT")) = 2
        /\ \E i, j \in RowsOfPair(mm_metrics, e, "BTCUSDT") :
              /\ mm_metrics[i].timestamp < mm_metrics[j].timestamp
              /\ mm_metrics[i].bid_depth_2pct = NULL
              /\ mm_metrics[j].bid_depth_2pct
                    = <<depth_task[e].depth_levels["2%"].bid_volume, 1>>
              /\ mm_metrics[j].bid_depth_1pct
                    = <<depth_task[e].depth_levels["1%"].bid_volume, 1>>
              /\ mm_metrics[j].bid_depth_1pct # mm_metrics[i].bid_depth_1pct

\* an UPDATE that found no row of the pair, and a row of the pair inserted
\* afterwards that carries no 2% depth
C27_DroppedWitness ==
    \E e \in Exchanges :
        /\ depth_task[e] # None /\ depth_task[e].pc = "done" /\ depth_task[e].status = 0
        /\ \E i \in RowsOfPair(mm_metrics, e, "BTCUSDT") :
              /\ mm_metrics[i].bid_depth_2pct = NULL
              /\ mm_metrics[i].bid_depth_1pct
                    # <<depth_task[e].depth_levels["1%"].bid_volume, 1>>


(***************************************************************************)
(* Claims about the liquidity profiler (Spec), continued                    *)
(***************************************************************************)
\* the two-sided rows of the window, in the order of the loop
TwoSidedWindow == SelectSeq(WindowRows, LAMBDA r : r.bids # <<>> /\ r.asks # <<>>)

Top20Sum(levels) == SumOver(levels, 1..Min(20, Len(levels)))

\* the two-sided rows whose top-20 volume is positive
VolumeWindow ==
    SelectSeq(TwoSidedWindow, LAMBDA r : Top20Sum(r.bids) + Top20Sum(r.asks) > 0)

\* C28: every imbalance sample is (bid_vol_top20 - ask_vol_top20) /
\* (bid_vol_top20 + ask_vol_top20) of its snapshot and lies in [-1, 1]; a two-sided
\* snapshot whose top-20 total volume is 0 adds no imbalance sample (nothing is
\* divided by zero) and still adds a spread sample and a depth sample per band
C28_ImbalanceSamples ==
    profiler_locals # None =>
        /\ Len(profiler_locals.imbalances) = Len(VolumeWindow)
        /\ \A k \in 1..Len(VolumeWindow) :
              LET b == Top20Sum(VolumeWindow[k].bids)
                  a == Top20Sum(VolumeWindow[k].asks)
                  x == profiler_locals.imbalances[k]
              IN  /\ x[2] > 0
                  /\ x[1] * (b + a) = (b - a) * x[2]
                  /\ -x[2] <= x[1] /\ x[1] <= x[2]
        /\ Len(profiler_locals.spreads) = Len(TwoSidedWindow)
        /\ \A n \in ProfilerBandNames :
              /\ Len(profiler_locals.bid_depth_levels[n]) = Len(TwoSidedWindow)
              /\ Len(profiler_locals.ask_depth_levels[n]) = Len(TwoSidedWindow)

\* a window of a book with resting orders of size zero and a bid-heavy book: two
\* spread samples and two depth samples per band, one imbalance sample
C28_Witness ==
    /\ profiler_locals # None
    /\ Len(TwoSidedWindow) = 2 /\ Len(VolumeWindow) = 1
    /\ Len(profiler_locals.spreads) = 2
    /\ Len(profiler_locals.imbalances) = 1
    /\ profiler_locals.imbalances[1][1] > 0
    /\ Len(profiler_locals.bid_depth_levels["1%"]) = 2


(***************************************************************************)
(* wait_for_db.py: wait_for_postgres, awaited by lifespan before the pool   *)
(* is created                                                               *)
(***************************************************************************)
\* max_retries=30, retry_interval=2
default_max_retries == 30

default_retry_interval == 2

\* the frame of a call that has just entered the function: range(max_retries) is
\* empty for max_retries <= 0 and the function falls through to "return False"
EnterWait(max_retries, retry_interval) ==
    [max_retries |-> max_retries, retry_interval |-> retry_interval,
     attempt |-> 0,
     pc |-> IF max_retries > 0 THEN "connect" ELSE "returned",
     result |-> IF max_retries > 0 THEN None ELSE [value |-> FALSE],
     attempts |-> 0, failures |-> 0, sleeps |-> 0, slept |-> 0, ready |-> FALSE]

\* an except clause that would sleep after the last attempt as well
Except_AlwaysSleeps(w) ==
    [w EXCEPT !.failures = @ + 1, !.pc = "sleep"]

\* except Exception: the warning is logged; the coroutine sleeps if
\* attempt < max_retries - 1, otherwise the loop is over and False is returned
Except(w) ==
    IF w.attempt < w.max_retries - 1
    THEN [w EXCEPT !.failures = @ + 1, !.pc = "sleep"]
    ELSE [w EXCEPT !.failures = @ + 1, !.pc = "returned", !.result = [value |-> FALSE]]

(***************************************************************************)
(* SpecWait: one call, with the default arguments or with max_retries up to *)
(* MaxRetries.  Every await returns or raises; the event loop runs the      *)
(* coroutine whenever it can go on, which is the fairness condition.        *)
(***************************************************************************)
MaxRetries == 3

RetryArgs == 0..MaxRetries \cup {default_max_retries}

InitWait ==
    /\ now = StartTime
    /\ mm_metrics = <<>> /\ market_data = <<>>
    /\ DetectorIdle
    /\ depth_task = None /\ metrics_task = <<>>
    /\ mm_performance = <<>> /\ perf_task = None
    /\ waiter = None
    /\ last_processed_timestamp = 0 /\ swap_transactions = {} /\ tracker_calls = <<>>

waitUnchanged ==
    <<bookVars, windowVars, requestVars, callVars, jobVars,
      last_processed_timestamp, swap_transactions, tracker_calls>>

\* the call is made
WaitForPostgres(max_retries, retry_interval) ==
    /\ waiter = None
    /\ waiter' = EnterWait(max_retries, retry_interval)
    /\ UNCHANGED waitUnchanged

\* conn = await asyncpg.connect(db_url)
Connect(connected) ==
    /\ waiter # None /\ waiter.pc = "connect"
    /\ waiter' = IF connected
                 THEN [waiter EXCEPT !.attempts = @ + 1, !.pc = "select"]
                 ELSE Except([waiter EXCEPT !.attempts = @ + 1])
    /\ UNCHANGED waitUnchanged

\* await conn.fetchval('SELECT 1')
SelectOne(answered) ==
    /\ waiter # None /\ waiter.pc = "select"
    /\ waiter' = IF answered
                 THEN [waiter EXCEPT !.ready = TRUE, !.pc = "close"]
                 ELSE Except(waiter)
    /\ UNCHANGED waitUnchanged

\* await conn.close(), then "return True"
CloseConnection(closed) ==
    /\ waiter # None /\ waiter.pc = "close"
    /\ waiter' = IF closed
                 THEN [waiter EXCEPT !.pc = "returned", !.result = [value |-> TRUE]]
                 ELSE Except(waiter)
    /\ UNCHANGED waitUnchanged

\* await asyncio.sleep(retry_interval), then the next iteration of the loop
Sleep ==
    /\ waiter # None /\ waiter.pc = "sleep"
    /\ waiter' = [waiter EXCEPT !.sleeps = @ + 1, !.slept = @ + waiter.retry_interval,
                                !.attempt = @ + 1, !.pc = "connect"]
    /\ UNCHANGED waitUnchanged

NextWait ==
    \/ \E max_retries \in RetryArgs, retry_interval \in {0, default_retry_interval} :
          WaitForPostgres(max_retries, retry_interval)
    \/ \E connected \in BOOLEAN : Connect(connected)
    \/ \E answered \in BOOLEAN : SelectOne(answered)
    \/ \E closed \in BOOLEAN : CloseConnection(closed)
    \/ Sleep

SpecWait == InitWait /\ [][NextWait]_vars /\ WF_vars(NextWait)

(***************************************************************************)
(* Claims about wait_for_postgres (SpecWait)                                *)
(***************************************************************************)
Returned == waiter # None /\ waiter.pc = "returned"

\* exactly max_retries attempts, a sleep after each of them but the last, False
ExhaustedRetries ==
    /\ waiter.result = [value |-> FALSE]
    /\ waiter.attempts = (IF waiter.max_retries > 0 THEN waiter.max_retries ELSE 0)
    /\ waiter.failures = waiter.attempts
    /\ waiter.sleeps = (IF waiter.attempts > 0 THEN waiter.attempts - 1 ELSE 0)
    /\ waiter.slept = waiter.sleeps * waiter.retry_interval

C29_ExhaustedWitness ==
    /\ Returned /\ waiter.result = [value |-> FALSE]
    /\ waiter.attempts = default_max_retries /\ waiter.sleeps = 29 /\ waiter.slept = 58


(***************************************************************************)
(* analytics/real_time_tracker.py: RealTimeTracker.process_swaps            *)
(***************************************************************************)
\* the swaps the subgraph can return: transaction id and block timestamp; two of
\* them share a block
SwapUniverse ==
    { [id |-> "0xa", timestamp |-> 1],
      [id |-> "0xb", timestamp |-> 2],
      [id |-> "0xc", timestamp |-> 2] }

\* the swaps the loop does not skip: "if timestamp <= self.last_processed_timestamp:
\* continue"
NewSwaps(swaps, last) ==
    {swap \in swaps : ~(swap.timestamp <= last)}

\* max(int(s['timestamp']) for s in swaps), for a non-empty list
MaxTimestamp(swaps) ==
    CHOOSE t \in {swap.timestamp : swap \in swaps} :
        \A swap \in swaps : swap.timestamp <= t

\* "if swaps: self.last_processed_timestamp = max(...)"
LastAfter(swaps, last) ==
    IF swaps # {} THEN MaxTimestamp(swaps) ELSE last

(***************************************************************************)
(* SpecTracker: up to MaxCycles calls of process_swaps on one tracker, each *)
(* with a list of distinct swaps; the INSERTs of a call reach the database  *)
(* or raise and are logged.                                                 *)
(***************************************************************************)
MaxCycles == 3

InitTracker ==
    /\ now = StartTime
    /\ mm_metrics = <<>> /\ market_data = <<>>
    /\ DetectorIdle
    /\ depth_task = None /\ metrics_task = <<>>
    /\ mm_performance = <<>> /\ perf_task = None
    /\ waiter = None
    /\ last_processed_timestamp = 0
    /\ swap_transactions = {}
    /\ tracker_calls = <<>>

\* one call, from "traders = {}" to "return traders, new_swaps"; the call is
\* recorded with the value of last_processed_timestamp it started from, the swaps it
\* counted as new and the rows it added to swap_transactions
ProcessSwaps(swaps, db_up) ==
    /\ Len(tracker_calls) < MaxCycles
    /\ LET new      == NewSwaps(swaps, last_processed_timestamp)
           inserted == IF db_up THEN {swap.id : swap \in new} \ swap_transactions ELSE {}
       IN /\ swap_transactions' = swap_transactions \cup inserted
          /\ last_processed_timestamp' = LastAfter(swaps, last_processed_timestamp)
          /\ tracker_calls' = Append(tracker_calls,
                [swaps       |-> swaps,
                 last_before |-> last_processed_timestamp,
                 counted     |-> {swap.id : swap \in new},
                 new_swaps   |-> Cardinality(new),
                 inserted    |-> inserted,
                 last_after  |-> LastAfter(swaps, last_processed_timestamp)])
    /\ UNCHANGED <<bookVars, windowVars, requestVars, callVars, jobVars, waiter>>

NextTracker ==
    \E swaps \in SUBSET SwapUniverse, db_up \in BOOLEAN : ProcessSwaps(swaps, db_up)

SpecTracker == InitTracker /\ [][NextTracker]_vars

(***************************************************************************)
(* Claims about process_swaps (SpecTracker)                                 *)
(***************************************************************************)
CallsCounting(id) ==
    {k \in 1..Len(tracker_calls) : id \in tracker_calls[k].counted}

\* C30: across any sequence of process_swaps calls, last_processed_timestamp never
\* decreases, every swap whose timestamp is <= the value held at the start of the
\* call is skipped (neither counted as new nor stored), and every swap whose
\* timestamp is greater is processed exactly once over the whole sequence
C30_HighWaterMark ==
    /\ \A k \in 1..Len(tracker_calls) :
          LET call == tracker_calls[k] IN
          /\ call.last_after >= call.last_before
          /\ \A swap \in call.swaps :
                IF swap.timestamp <= call.last_before
                THEN swap.id \notin call.counted /\ swap.id \notin call.inserted
                ELSE swap.id \in call.counted
    /\ \A swap \in SwapUniverse : Cardinality(CallsCounting(swap.id)) <= 1

\* the skip rule alone, which the code keeps: within a call a swap is counted iff
\* its timestamp is above the value held at the start of the call
C30_SkipRule ==
    \A k \in 1..Len(tracker_calls) :
        LET call == tracker_calls[k] IN
        /\ call.new_swaps = Cardinality(call.counted)
        /\ call.inserted \subseteq call.counted
        /\ \A swap \in call.swaps :
              swap.id \in call.counted <=> swap.timestamp > call.last_before

\* a swap counted as new by two calls after the mark went down in between
C30_CountedTwice ==
    \E swap \in SwapUniverse : Cardinality(CallsCounting(swap.id)) >= 2

====
